---------------------------- MODULE Spec2Model ----------------------------
(***************************************************************************)
(* Model of the Submission Orchestrator of src/docker/server.py: the       *)
(* admission registry, the POST /test request handler with its buffered    *)
(* and streaming pipelines, the process supervisor, the line-stream        *)
(* multiplexer and the POST /cancel handler.                               *)
(*                                                                         *)
(* Threads: one handler thread per POST /test request (ThreadingHTTPServer *)
(* starts a thread per request) and canceller threads for POST /cancel.    *)
(* A step of a thread is atomic where the code holds _active_request_lock  *)
(* or touches only thread-local data; every read of the cancellation       *)
(* Event, every registry call and every interaction with a child process   *)
(* is a step of its own.                                                   *)
(***************************************************************************)
EXTENDS Integers, Sequences, FiniteSets, TLC

\* ------------------------------------------------------------------ bounds
NumHandlers == 2
NumCancellers == 1
MaxLines == 2
TestTimeout == 3
\* keepalive_interval of run_cdcl_test_streaming, in ticks of the select loop
KeepaliveInterval == 2
\* grace_period of terminate_process_gracefully, in ticks
GracePeriod == 1

Handlers == 1..NumHandlers
Cancellers == 1..NumCancellers
Projects == {"p1", "p2"}
RequestIds == {"r1", "r2"}
Phases == {"build", "test"}

VARIABLES
    byProject,      \* _active_requests_by_project: project -> record
    reqToProject,   \* _request_to_project: request id -> project
    pc,             \* handler thread -> position in do_POST
    req,            \* handler thread -> request_data
    flag,           \* handler thread -> its threading.Event is set
    conflict,       \* handler thread -> conflict_info of try_register_request
    child,          \* handler thread -> phase -> state of the Popen child
    sigs,           \* handler thread -> phase -> signals sent to the child
    result,         \* handler thread -> phase -> phase verdict
    events,         \* handler thread -> SSE events written (attempted)
    conn,           \* handler thread -> client connection is up
    http,           \* handler thread -> HTTP status of the buffered reply
    exc,            \* handler thread -> an exception is propagating
    copies,         \* handler thread -> number of copy_project runs
    mx,             \* handler thread -> locals of run_cdcl_test_streaming
    out,            \* handler thread -> lines in the test child's stdout pipe
    wrote,          \* handler thread -> number of lines the test child wrote
    cpc,            \* canceller thread -> position in the /cancel handler
    creq,           \* canceller thread -> request_id of the cancel body
    cproc,          \* canceller thread -> proc read under the lock
    cret,           \* canceller thread -> status returned by cancel_request
    hgrace,         \* handler thread -> ticks spent in communicate(timeout=grace_period)
    cgrace          \* canceller thread -> ticks spent in communicate(timeout=grace_period)

vars == <<byProject, reqToProject, pc, req, flag, conflict, child, sigs,
          result, events, conn, http, exc, copies, mx, out, wrote,
          cpc, creq, cproc, cret, hgrace, cgrace>>

\* ------------------------------------------------------------- registry
\* An absent dictionary entry.
NoRecord == [request_id |-> "none", proc |-> "none", owner |-> 0]
NoConflict == [reason |-> "none", request_id |-> "none", project_name |-> "none"]
NoProc == [owner |-> 0, phase |-> "none"]

\* try_register_request without the check of _request_to_project.
try_register_no_id_check(byp, r2p, project_name, request_id, owner) ==
    IF byp[project_name] /= NoRecord
    THEN [byp |-> byp, r2p |-> r2p,
          conflict |-> [reason |-> "project_busy",
                        request_id |-> byp[project_name].request_id,
                        project_name |-> project_name]]
    ELSE [byp |-> [byp EXCEPT ![project_name] =
                      [request_id |-> request_id, proc |-> "none", owner |-> owner]],
          r2p |-> [r2p EXCEPT ![request_id] = project_name],
          conflict |-> NoConflict]

\* try_register_request reporting the rejected request's own id as the holder.
try_register_own_id(byp, r2p, project_name, request_id, owner) ==
    IF byp[project_name] /= NoRecord
    THEN [byp |-> byp, r2p |-> r2p,
          conflict |-> [reason |-> "project_busy",
                        request_id |-> request_id,
                        project_name |-> project_name]]
    ELSE IF r2p[request_id] /= "none"
    THEN [byp |-> byp, r2p |-> r2p,
          conflict |-> [reason |-> "request_id_busy",
                        request_id |-> request_id,
                        project_name |-> r2p[request_id]]]
    ELSE [byp |-> [byp EXCEPT ![project_name] =
                      [request_id |-> request_id, proc |-> "none", owner |-> owner]],
          r2p |-> [r2p EXCEPT ![request_id] = project_name],
          conflict |-> NoConflict]

\* try_register_request reporting the requested project, not the holding one.
try_register_own_project(byp, r2p, project_name, request_id, owner) ==
    IF byp[project_name] /= NoRecord
    THEN [byp |-> byp, r2p |-> r2p,
          conflict |-> [reason |-> "project_busy",
                        request_id |-> byp[project_name].request_id,
                        project_name |-> project_name]]
    ELSE IF r2p[request_id] /= "none"
    THEN [byp |-> byp, r2p |-> r2p,
          conflict |-> [reason |-> "request_id_busy",
                        request_id |-> request_id,
                        project_name |-> project_name]]
    ELSE [byp |-> [byp EXCEPT ![project_name] =
                      [request_id |-> request_id, proc |-> "none", owner |-> owner]],
          r2p |-> [r2p EXCEPT ![request_id] = project_name],
          conflict |-> NoConflict]

\* try_register_request that installs the record without the id entry.
try_register_no_id_entry(byp, r2p, project_name, request_id, owner) ==
    IF byp[project_name] /= NoRecord
    THEN [byp |-> byp, r2p |-> r2p,
          conflict |-> [reason |-> "project_busy",
                        request_id |-> byp[project_name].request_id,
                        project_name |-> project_name]]
    ELSE IF r2p[request_id] /= "none"
    THEN [byp |-> byp, r2p |-> r2p,
          conflict |-> [reason |-> "request_id_busy",
                        request_id |-> request_id,
                        project_name |-> r2p[request_id]]]
    ELSE [byp |-> [byp EXCEPT ![project_name] =
                      [request_id |-> request_id, proc |-> "none", owner |-> owner]],
          r2p |-> r2p,
          conflict |-> NoConflict]

\* try_register_request under _active_request_lock: the new maps and the
\* conflict_info (NoConflict on success).  owner identifies the Event.
try_register_request(byp, r2p, project_name, request_id, owner) ==
    IF byp[project_name] /= NoRecord
    THEN [byp |-> byp, r2p |-> r2p,
          conflict |-> [reason |-> "project_busy",
                        request_id |-> byp[project_name].request_id,
                        project_name |-> project_name]]
    ELSE IF r2p[request_id] /= "none"
    THEN [byp |-> byp, r2p |-> r2p,
          conflict |-> [reason |-> "request_id_busy",
                        request_id |-> request_id,
                        project_name |-> r2p[request_id]]]
    ELSE [byp |-> [byp EXCEPT ![project_name] =
                      [request_id |-> request_id, proc |-> "none", owner |-> owner]],
          r2p |-> [r2p EXCEPT ![request_id] = project_name],
          conflict |-> NoConflict]

\* register_process installing a fresh record (with a new Event) for the child.
register_process_new_record(byp, r2p, request_id, proc) ==
    LET project_name == r2p[request_id] IN
    IF project_name = "none" THEN byp
    ELSE IF byp[project_name] /= NoRecord /\ byp[project_name].request_id = request_id
    THEN [byp EXCEPT ![project_name] =
              [request_id |-> request_id, proc |-> proc, owner |-> 0]]
    ELSE byp

\* register_process under the lock: the new _active_requests_by_project.
register_process(byp, r2p, request_id, proc) ==
    LET project_name == r2p[request_id] IN
    IF project_name = "none" THEN byp
    ELSE IF byp[project_name] /= NoRecord /\ byp[project_name].request_id = request_id
    THEN [byp EXCEPT ![project_name].proc = proc]
    ELSE byp

\* unregister_request that forgets the id but leaves the record in place.
unregister_keeps_record(byp, r2p, request_id) ==
    LET project_name == r2p[request_id] IN
    IF project_name = "none" THEN [byp |-> byp, r2p |-> r2p]
    ELSE [r2p |-> [r2p EXCEPT ![request_id] = "none"], byp |-> byp]

\* unregister_request that deletes the record but leaves the id entry behind.
unregister_leaves_id(byp, r2p, request_id) ==
    LET project_name == r2p[request_id] IN
    IF project_name = "none" THEN [byp |-> byp, r2p |-> r2p]
    ELSE [r2p |-> r2p,
          byp |-> IF byp[project_name] /= NoRecord
                     /\ byp[project_name].request_id = request_id
                  THEN [byp EXCEPT ![project_name] = NoRecord]
                  ELSE byp]

\* unregister_request under the lock: both maps.
unregister_request(byp, r2p, request_id) ==
    LET project_name == r2p[request_id] IN
    IF project_name = "none" THEN [byp |-> byp, r2p |-> r2p]
    ELSE [r2p |-> [r2p EXCEPT ![request_id] = "none"],
          byp |-> IF byp[project_name] /= NoRecord
                     /\ byp[project_name].request_id = request_id
                  THEN [byp EXCEPT ![project_name] = NoRecord]
                  ELSE byp]

\* The locked part of cancel_request: the record found, or NoRecord.
cancel_lookup(byp, r2p, request_id) ==
    LET project_name == r2p[request_id] IN
    IF project_name = "none" THEN NoRecord
    ELSE IF byp[project_name] = NoRecord \/ byp[project_name].request_id /= request_id
    THEN NoRecord
    ELSE byp[project_name]


\* -------------------------------------------------------------- records
NoReq == [project_name |-> "none", request_id |-> "none", sse |-> FALSE,
          filters |-> FALSE, exists |-> FALSE, try_py |-> FALSE]
NoVerdict == [status |-> "none", message |-> "none", summary |-> "none",
              partial |-> FALSE]
Verdict(status, message) ==
    [status |-> status, message |-> message, summary |-> "none", partial |-> FALSE]
NoResult == [build |-> NoVerdict, test |-> NoVerdict, error |-> "none"]
NoMx == [test_index |-> 0, test_total |-> -1, summary |-> "none", failures |-> 0,
         client_disconnected |-> FALSE, elapsed |-> 0, last_keepalive |-> 0,
         why |-> "none"]

\* One SSE event as send_sse_event writes it; ok is its return value.
Ev(e, phase, status, ok) ==
    [e |-> e, phase |-> phase, status |-> status, index |-> 0, total |-> -1, ok |-> ok]

\* send_sse_event: the event log with one more event; the write fails
\* (returns False) when the client connection is down.
send_sse_event(log, up, e, phase, status) == Append(log, Ev(e, phase, status, up))

\* The states the client connection of handler h can be in when a step
\* writes to it: a connection that is up may have been closed by the client
\* since the last write; a closed one stays closed.
Link(h, writes) == IF writes /\ conn[h] THEN {TRUE, FALSE} ELSE {conn[h]}

\* Positions of the supervisor functions, per phase.
P == [build |-> [check |-> "build_check", spawn |-> "build_spawn",
                 register |-> "build_register", wait |-> "build_wait",
                 term |-> "build_term", termwait |-> "build_termwait",
                 done |-> "build_done"],
      test  |-> [check |-> "test_check", spawn |-> "test_spawn",
                 register |-> "test_register", wait |-> "test_wait",
                 term |-> "test_term", termwait |-> "test_termwait",
                 done |-> "test_done"]]

Running(o, ph) == child[o][ph] = "running"
Exited(o, ph) == child[o][ph] \in {"rc0", "rc1"}

TypeOK ==
    /\ byProject \in [Projects -> [request_id : RequestIds \cup {"none"},
                                   proc : Phases \cup {"none"},
                                   owner : Handlers \cup {0}]]
    /\ reqToProject \in [RequestIds -> Projects \cup {"none"}]
    /\ flag \in [Handlers -> BOOLEAN]
    /\ conn \in [Handlers -> BOOLEAN]
    /\ exc \in [Handlers -> BOOLEAN]
    /\ child \in [Handlers -> [Phases -> {"none", "running", "rc0", "rc1"}]]
    /\ copies \in [Handlers -> 0..1]
    /\ cret \in [Cancellers -> {"none", "not_found", "no_process", "cancelled"}]
    /\ hgrace \in [Handlers -> 0..GracePeriod]
    /\ cgrace \in [Cancellers -> 0..GracePeriod]

Init ==
    /\ byProject = [p \in Projects |-> NoRecord]
    /\ reqToProject = [r \in RequestIds |-> "none"]
    /\ pc = [h \in Handlers |-> "idle"]
    /\ req = [h \in Handlers |-> NoReq]
    /\ flag = [h \in Handlers |-> FALSE]
    /\ conflict = [h \in Handlers |-> NoConflict]
    /\ child = [h \in Handlers |-> [ph \in Phases |-> "none"]]
    /\ sigs = [h \in Handlers |-> [ph \in Phases |-> {}]]
    /\ result = [h \in Handlers |-> NoResult]
    /\ events = [h \in Handlers |-> <<>>]
    /\ conn = [h \in Handlers |-> TRUE]
    /\ http = [h \in Handlers |-> 0]
    /\ exc = [h \in Handlers |-> FALSE]
    /\ copies = [h \in Handlers |-> 0]
    /\ mx = [h \in Handlers |-> NoMx]
    /\ out = [h \in Handlers |-> <<>>]
    /\ wrote = [h \in Handlers |-> 0]
    /\ cpc = [c \in Cancellers |-> "idle"]
    /\ creq = [c \in Cancellers |-> "none"]
    /\ cproc = [c \in Cancellers |-> NoProc]
    /\ cret = [c \in Cancellers |-> "none"]
    /\ hgrace = [h \in Handlers |-> 0]
    /\ cgrace = [c \in Cancellers |-> 0]

\* cancel_request with its with-block drawn around the termination as well.
locked_positions_terminating == {"poll", "termwait"}

\* The positions at which a canceller thread rests inside "with
\* _active_request_lock": none; the with-block of cancel_request is the one
\* step that looks the record up, sets the Event and reads proc, and the
\* positions poll and termwait come after it.
locked_positions == {}

\* _active_request_lock can be acquired: no thread rests inside a with-block.
\* (The with-blocks of the handler threads are single steps as well.)
LockFree == \A c \in Cancellers : cpc[c] \notin locked_positions

regVars == <<byProject, reqToProject>>
cancVars == <<cpc, creq, cproc, cret>>
procVars == <<child, sigs, out, wrote>>
graceVars == <<hgrace, cgrace>>

\* ------------------------------------------------- POST /test: admission
\* do_POST up to and including try_register_request.
Receive(h, project_name, request_id, sse, filters, exists, try_py) ==
    LET t == try_register_request(byProject, reqToProject, project_name, request_id, h) IN
    /\ pc[h] = "idle"
    /\ LockFree
    /\ req' = [req EXCEPT ![h] = [project_name |-> project_name, request_id |-> request_id,
                                  sse |-> sse, filters |-> filters,
                                  exists |-> exists, try_py |-> try_py]]
    /\ byProject' = t.byp
    /\ reqToProject' = t.r2p
    /\ conflict' = [conflict EXCEPT ![h] = t.conflict]
    /\ pc' = [pc EXCEPT ![h] = IF t.conflict = NoConflict THEN "admitted" ELSE "conflict"]
    /\ UNCHANGED <<graceVars, flag, child, sigs, result, events, conn, http, exc, copies, mx, out, wrote,
                   cancVars>>

\* The conflict reply of the streaming transport without its done event.
conflict_events_no_done(log, up, reason) ==
    send_sse_event(log, up, "error", "request", reason)

\* The events of the conflict reply of the streaming transport.
conflict_events(log, up, reason) ==
    send_sse_event(send_sse_event(log, up, "error", "request", reason),
                   up, "done", "-", "false")

\* do_POST on an admission conflict: the 409 reply or the SSE error + done.
\* A failed write of the reply or of the SSE headers raises out of the try
\* block into "except Exception", which calls unregister_request(request_id)
\* and whose own reply fails as well; a failed write of an SSE event (the
\* client left after the headers) does not raise.
ReplyConflict(h) ==
    \E up \in Link(h, TRUE) :
    \E later \in IF up /\ req[h].sse THEN {TRUE, FALSE} ELSE {up} :
    LET u == unregister_request(byProject, reqToProject, req[h].request_id)
        e2 == conflict_events(events[h], later, conflict[h].reason)
    IN
    /\ pc[h] = "conflict"
    /\ pc' = [pc EXCEPT ![h] = "done"]
    /\ conn' = [conn EXCEPT ![h] = later]
    /\ IF up
       THEN /\ events' = [events EXCEPT ![h] = IF req[h].sse THEN e2 ELSE @]
            /\ http' = [http EXCEPT ![h] = IF req[h].sse THEN 200 ELSE 409]
            /\ UNCHANGED <<regVars, exc>>
       ELSE /\ LockFree
            /\ byProject' = u.byp
            /\ reqToProject' = u.r2p
            /\ exc' = [exc EXCEPT ![h] = TRUE]
            /\ UNCHANGED <<events, http>>
    /\ UNCHANGED <<graceVars, req, flag, conflict, child, sigs, result, copies, mx, out, wrote,
                   cancVars>>

\* --------------------------------------------- pipeline: copy and checks
\* No request is rejected for its filters.
filters_never_rejected(r) == FALSE

\* "(per_test_timeout is not None or test_name or test_file) and not uses_try_py".
filters_rejected(r) == r.filters /\ ~r.try_py

\* do_POST after admission, then handle_proj_submit / handle_proj_submit_streaming
\* up to the call of run_moon_build: SSE headers, source check, copy_project,
\* filter validation.  All of it is local to the handler thread.
Begin(h) ==
    \E up \in Link(h, req[h].sse) :
    LET r == req[h]
        rejected == filters_rejected(r)
        e0 == send_sse_event(events[h], up, "error", "copy", "Project not found")
        nf == send_sse_event(e0, up, "done", "-", "false")
        e1 == send_sse_event(events[h], up, "request_id", "-", r.request_id)
        e2 == send_sse_event(e1, up, "phase", "copy", "start")
        e3 == send_sse_event(e2, up, "phase", "copy", "pass")
        f1 == send_sse_event(e3, up, "error", "build", "filters")
        fl == send_sse_event(f1, up, "done", "-", "false")
        ok == send_sse_event(e3, up, "phase", "build", "start")
    IN
    /\ pc[h] = "admitted"
    /\ conn' = [conn EXCEPT ![h] = up]
    /\ IF r.sse /\ ~up
       THEN \* _send_sse_headers raises BrokenPipeError / ConnectionResetError
            /\ exc' = [exc EXCEPT ![h] = TRUE]
            /\ pc' = [pc EXCEPT ![h] = "finally"]
            /\ UNCHANGED <<result, events, copies>>
       ELSE IF ~r.exists
       THEN /\ result' = [result EXCEPT ![h].error = "Project not found"]
            /\ events' = [events EXCEPT ![h] = IF r.sse THEN nf ELSE @]
            /\ pc' = [pc EXCEPT ![h] = IF r.sse THEN "finally" ELSE "respond"]
            /\ UNCHANGED <<exc, copies>>
       ELSE /\ copies' = [copies EXCEPT ![h] = @ + 1]
            /\ UNCHANGED exc
            /\ IF rejected
               THEN /\ result' = [result EXCEPT ![h].error = "filters"]
                    /\ events' = [events EXCEPT ![h] = IF r.sse THEN fl ELSE @]
                    /\ pc' = [pc EXCEPT ![h] = IF r.sse THEN "finally" ELSE "respond"]
               ELSE /\ events' = [events EXCEPT ![h] = IF r.sse THEN ok ELSE @]
                    /\ pc' = [pc EXCEPT ![h] = "build_check"]
                    /\ UNCHANGED result
    /\ UNCHANGED <<graceVars, regVars, req, flag, conflict, child, sigs, http, mx, out, wrote,
                   cancVars>>

\* ------------------------------------------------------ process supervisor
\* What _parse_cdcl_jsonl finds in captured output: the last summary line
\* ("sum0": failed = 0, "sum1": failed > 0) and the number of non-pass results.
RECURSIVE LastSummary(_)
LastSummary(o) ==
    IF o = <<>> THEN "none"
    ELSE IF o[Len(o)] \in {"sum0", "sum1"} THEN o[Len(o)]
    ELSE LastSummary(SubSeq(o, 1, Len(o) - 1))

RECURSIVE CountFailures(_)
CountFailures(o) ==
    IF o = <<>> THEN 0
    ELSE (IF o[1] = "fail" THEN 1 ELSE 0) + CountFailures(Tail(o))

\* The verdict run_moon_build / run_moon_test / run_cdcl_test return when
\* communicate() returned and the flag was not set.
ExitVerdict(h, ph) ==
    IF ph = "build"
    THEN IF child[h][ph] = "rc0" THEN Verdict("pass", "Build succeeded")
         ELSE Verdict("fail", "Build failed")
    ELSE IF ~req[h].try_py
    THEN IF child[h][ph] = "rc0" THEN Verdict("pass", "All tests passed")
         ELSE Verdict("fail", "test(s) failed")
    ELSE IF child[h][ph] = "rc0" /\ LastSummary(out[h]) \in {"none", "sum0"}
    THEN [Verdict("pass", "All tests passed") EXCEPT !.summary = LastSummary(out[h])]
    ELSE [Verdict("fail", "test(s) failed") EXCEPT !.summary = LastSummary(out[h])]

\* The verdict of the TimeoutExpired branch, after terminate_process_gracefully.
TimeoutVerdict(h, ph) ==
    IF ph = "test" /\ req[h].try_py /\ out[h] /= <<>>
    THEN [status |-> "timeout", message |-> "Timeout with partial results",
          summary |-> LastSummary(out[h]), partial |-> TRUE]
    ELSE Verdict("error", "Timeout")

Cancelled == Verdict("cancelled", "Cancelled")

\* The pre-spawn check "if cancelled is not None and cancelled.is_set()".
SupCheck(h, ph) ==
    /\ pc[h] = P[ph].check
    /\ IF flag[h]
       THEN /\ result' = [result EXCEPT ![h][ph] = Cancelled]
            /\ pc' = [pc EXCEPT ![h] = P[ph].done]
       ELSE /\ pc' = [pc EXCEPT ![h] = P[ph].spawn]
            /\ UNCHANGED result
    /\ UNCHANGED <<graceVars, regVars, req, flag, conflict, child, sigs, events, conn, http, exc,
                   copies, mx, out, wrote, cancVars>>

\* subprocess.Popen(...) succeeds: the child runs in its own session.
SupSpawn(h, ph) ==
    /\ pc[h] = P[ph].spawn
    /\ child' = [child EXCEPT ![h][ph] = "running"]
    /\ pc' = [pc EXCEPT ![h] = P[ph].register]
    /\ UNCHANGED <<graceVars, regVars, req, flag, conflict, sigs, result, events, conn, http, exc,
                   copies, mx, out, wrote, cancVars>>

\* subprocess.Popen(...) raises: "except Exception" returns the error verdict.
SupSpawnFail(h, ph) ==
    /\ pc[h] = P[ph].spawn
    /\ result' = [result EXCEPT ![h][ph] = Verdict("error", "Execution error")]
    /\ pc' = [pc EXCEPT ![h] = P[ph].done]
    /\ UNCHANGED <<graceVars, regVars, req, flag, conflict, child, sigs, events, conn, http, exc,
                   copies, mx, out, wrote, cancVars>>

\* "if request_id: register_process(request_id, proc)".
SupRegister(h, ph) ==
    /\ pc[h] = P[ph].register
    /\ LockFree
    /\ byProject' = register_process(byProject, reqToProject, req[h].request_id, ph)
    /\ pc' = [pc EXCEPT ![h] = IF ph = "test" /\ req[h].sse /\ req[h].try_py
                               THEN "mx_head" ELSE P[ph].wait]
    /\ UNCHANGED <<graceVars, reqToProject, req, flag, conflict, child, sigs, result, events, conn,
                   http, exc, copies, mx, out, wrote, cancVars>>

\* proc.communicate(timeout) returns because the child exited, then the
\* post-wait check of the flag and the verdict from the exit code.
SupWait(h, ph) ==
    /\ pc[h] = P[ph].wait
    /\ Exited(h, ph)
    /\ result' = [result EXCEPT ![h][ph] = IF flag[h] THEN Cancelled ELSE ExitVerdict(h, ph)]
    /\ pc' = [pc EXCEPT ![h] = P[ph].done]
    /\ UNCHANGED <<graceVars, regVars, req, flag, conflict, child, sigs, events, conn, http, exc,
                   copies, mx, out, wrote, cancVars>>

\* proc.communicate(timeout) raises TimeoutExpired: the deadline (a request
\* parameter) passed with the child still running.
SupTimeout(h, ph) ==
    /\ pc[h] = P[ph].wait
    /\ Running(h, ph)
    /\ pc' = [pc EXCEPT ![h] = P[ph].term]
    /\ UNCHANGED <<graceVars, regVars, req, flag, conflict, child, sigs, result, events, conn, http,
                   exc, copies, mx, out, wrote, cancVars>>

\* proc.communicate(timeout) raises an exception other than TimeoutExpired
\* (MemoryError while buffering the output, an error of the pipe): "except
\* Exception" of run_moon_build / run_moon_test / run_cdcl_test returns the
\* error verdict and does nothing about the child.
SupRaise(h, ph) ==
    /\ pc[h] = P[ph].wait
    /\ result' = [result EXCEPT ![h][ph] = Verdict("error", "Execution error")]
    /\ pc' = [pc EXCEPT ![h] = P[ph].done]
    /\ UNCHANGED <<graceVars, regVars, req, flag, conflict, child, sigs, events, conn, http, exc,
                   copies, mx, out, wrote, cancVars>>

\* terminate_process_gracefully without the poll of line 173.
terminate_no_poll(o, ph) ==
    [returned |-> FALSE, sigs |-> [sigs EXCEPT ![o][ph] = @ \cup {"TERM"}]]

\* terminate_process_gracefully, first part: poll, then SIGTERM.  TRUE in
\* .returned when the child had already exited.
terminate_start(o, ph) ==
    IF Exited(o, ph)
    THEN [returned |-> TRUE, sigs |-> sigs]
    ELSE [returned |-> FALSE, sigs |-> [sigs EXCEPT ![o][ph] = @ \cup {"TERM"}]]

\* terminate_process_gracefully after the grace window: os.killpg(pgid,
\* SIGKILL), and proc.kill() on the leader alone when killpg is refused.
force_kill(s, refused) ==
    IF refused THEN s \cup {"KILLPG_REFUSED", "KILL"} ELSE s \cup {"KILLPG"}

\* terminate_process_gracefully in the TimeoutExpired branch of a supervisor.
SupTermStart(h, ph) ==
    LET t == terminate_start(h, ph) IN
    /\ pc[h] = P[ph].term
    /\ sigs' = t.sigs
    /\ IF t.returned
       THEN /\ result' = [result EXCEPT ![h][ph] = TimeoutVerdict(h, ph)]
            /\ pc' = [pc EXCEPT ![h] = P[ph].done]
       ELSE /\ pc' = [pc EXCEPT ![h] = P[ph].termwait]
            /\ UNCHANGED result
    /\ UNCHANGED <<graceVars, regVars, req, flag, conflict, child, events, conn, http, exc, copies,
                   mx, out, wrote, cancVars>>

\* communicate(timeout=grace_period) returns: the child exited in the grace window.
SupTermWait(h, ph) ==
    /\ pc[h] = P[ph].termwait
    /\ Exited(h, ph)
    /\ result' = [result EXCEPT ![h][ph] = TimeoutVerdict(h, ph)]
    /\ pc' = [pc EXCEPT ![h] = P[ph].done]
    /\ hgrace' = [hgrace EXCEPT ![h] = 0]
    /\ UNCHANGED <<cgrace, regVars, req, flag, conflict, child, sigs, events, conn, http, exc,
                   copies, mx, out, wrote, cancVars>>

\* The grace window expired: os.killpg(pgid, SIGKILL), then communicate(timeout=1).
SupTermKill(h, ph) ==
    /\ pc[h] = P[ph].termwait
    /\ Running(h, ph)
    /\ hgrace[h] = GracePeriod
    /\ child' = [child EXCEPT ![h][ph] = "rc1"]
    /\ \E refused \in BOOLEAN : sigs' = [sigs EXCEPT ![h][ph] = force_kill(@, refused)]
    /\ result' = [result EXCEPT ![h][ph] = TimeoutVerdict(h, ph)]
    /\ pc' = [pc EXCEPT ![h] = P[ph].done]
    /\ hgrace' = [hgrace EXCEPT ![h] = 0]
    /\ UNCHANGED <<cgrace, regVars, req, flag, conflict, events, conn, http, exc, copies,
                   mx, out, wrote, cancVars>>

\* ------------------------------------------------------- pipeline driver
\* The pipeline going on to the test phase whatever the build verdict.
build_next_always_tests(b, sse) == "boundary"

\* Where the pipeline goes after run_moon_build: on to the phase boundary
\* for a verdict of pass, out by the early return for any other.
build_next(b, sse) ==
    IF b.status = "pass" THEN "boundary" ELSE IF sse THEN "finally" ELSE "respond"

\* After run_moon_build returned: the early returns on a build verdict other
\* than pass, with the events of the streaming transport.
BuildDone(h) ==
    \E up \in Link(h, req[h].sse) :
    LET b == result[h].build
        c1 == send_sse_event(events[h], up, "error", "build", "Cancelled")
        c2 == send_sse_event(c1, up, "done", "-", "false")
        f1 == send_sse_event(events[h], up, "phase", "build", "fail")
        f2 == send_sse_event(f1, up, "error", "build", b.message)
        f3 == send_sse_event(f2, up, "done", "-", "false")
        ok == send_sse_event(events[h], up, "phase", "build", "pass")
    IN
    /\ pc[h] = "build_done"
    /\ conn' = [conn EXCEPT ![h] = up]
    /\ events' = [events EXCEPT ![h] =
                    IF ~req[h].sse THEN @
                    ELSE IF b.status = "cancelled" THEN c2
                    ELSE IF b.status /= "pass" THEN f3
                    ELSE ok]
    /\ pc' = [pc EXCEPT ![h] = build_next(b, req[h].sse)]
    /\ UNCHANGED <<graceVars, regVars, req, flag, conflict, child, sigs, result, http, exc,
                   copies, mx, out, wrote, cancVars>>

\* The phase boundary without the check of the flag.
Boundary_ignores_flag(h) ==
    \E up \in Link(h, req[h].sse) :
    /\ pc[h] = "boundary"
    /\ conn' = [conn EXCEPT ![h] = up]
    /\ events' = [events EXCEPT ![h] =
                    IF req[h].sse THEN send_sse_event(@, up, "phase", "test", "start") ELSE @]
    /\ pc' = [pc EXCEPT ![h] = "test_check"]
    /\ UNCHANGED <<graceVars, regVars, req, flag, conflict, child, sigs, result, http, exc,
                   copies, mx, out, wrote, cancVars>>

\* "Check cancellation between build and test".
Boundary(h) ==
    \E up \in Link(h, req[h].sse) :
    LET c1 == send_sse_event(events[h], up, "error", "test", "Cancelled")
        c2 == send_sse_event(c1, up, "done", "-", "false")
        st == send_sse_event(events[h], up, "phase", "test", "start")
    IN
    /\ pc[h] = "boundary"
    /\ conn' = [conn EXCEPT ![h] = up]
    /\ IF flag[h]
       THEN /\ result' = [result EXCEPT ![h].test = Cancelled]
            /\ events' = [events EXCEPT ![h] = IF req[h].sse THEN c2 ELSE @]
            /\ pc' = [pc EXCEPT ![h] = IF req[h].sse THEN "finally" ELSE "respond"]
       ELSE /\ events' = [events EXCEPT ![h] = IF req[h].sse THEN st ELSE @]
            /\ pc' = [pc EXCEPT ![h] = "test_check"]
            /\ UNCHANGED result
    /\ UNCHANGED <<graceVars, regVars, req, flag, conflict, child, sigs, http, exc,
                   copies, mx, out, wrote, cancVars>>

\* success taken as "the test verdict is not fail".
done_success_not_fail(build_result, test_result) ==
    IF test_result.status /= "fail" THEN "true" ELSE "false"

\* "success = build_result[status] == pass and test_result[status] == pass".
done_success(build_result, test_result) ==
    IF build_result.status = "pass" /\ test_result.status = "pass" THEN "true" ELSE "false"

\* After the test runner returned: the closing events of the streaming
\* transport (test phase completion, done), or the way to the buffered reply.
TestDone(h) ==
    \E up \in Link(h, req[h].sse) :
    LET t == result[h].test
        \* run_moon_test under the streaming transport: its errors, post hoc
        e0 == IF ~req[h].try_py /\ t.status \in {"fail", "error"}
              THEN send_sse_event(events[h], up, "error_detail", "test", t.message)
              ELSE events[h]
        e1 == send_sse_event(e0, up, "phase", "test",
                             IF t.status = "pass" THEN "pass" ELSE "fail")
        e2 == send_sse_event(e1, up, "done", "-", done_success(result[h].build, t))
    IN
    /\ pc[h] = "test_done"
    /\ conn' = [conn EXCEPT ![h] = up]
    /\ events' = [events EXCEPT ![h] = IF req[h].sse THEN e2 ELSE @]
    /\ pc' = [pc EXCEPT ![h] = IF req[h].sse THEN "finally" ELSE "respond"]
    /\ UNCHANGED <<graceVars, regVars, req, flag, conflict, child, sigs, result, http, exc,
                   copies, mx, out, wrote, cancVars>>

\* Every buffered reply sent with 200.
status_code_200(response) == 200

\* The status code do_POST gives the buffered reply.
status_code(response) == IF response.error /= "none" THEN 500 ELSE 200

\* _send_json_response(status_code, response); a failed write raises.
Respond(h) ==
    \E up \in Link(h, TRUE) :
    /\ pc[h] = "respond"
    /\ conn' = [conn EXCEPT ![h] = up]
    /\ IF up
       THEN http' = [http EXCEPT ![h] = status_code(result[h])] /\ UNCHANGED exc
       ELSE exc' = [exc EXCEPT ![h] = TRUE] /\ UNCHANGED http
    /\ pc' = [pc EXCEPT ![h] = "finally"]
    /\ UNCHANGED <<graceVars, regVars, req, flag, conflict, child, sigs, result, events,
                   copies, mx, out, wrote, cancVars>>

\* "finally: unregister_request(request_id)".
Finally(h) ==
    LET u == unregister_request(byProject, reqToProject, req[h].request_id) IN
    /\ pc[h] = "finally"
    /\ LockFree
    /\ byProject' = u.byp
    /\ reqToProject' = u.r2p
    /\ pc' = [pc EXCEPT ![h] = IF exc[h] THEN "except" ELSE "done"]
    /\ UNCHANGED <<graceVars, req, flag, conflict, child, sigs, result, events, conn, http, exc,
                   copies, mx, out, wrote, cancVars>>

\* "except Exception": unregister_request(request_id) once more; the error
\* reply is attempted on the connection whose failure raised, and fails too.
Except(h) ==
    LET u == unregister_request(byProject, reqToProject, req[h].request_id) IN
    /\ pc[h] = "except"
    /\ LockFree
    /\ byProject' = u.byp
    /\ reqToProject' = u.r2p
    /\ pc' = [pc EXCEPT ![h] = "done"]
    /\ UNCHANGED <<graceVars, req, flag, conflict, child, sigs, result, events, conn, http, exc,
                   copies, mx, out, wrote, cancVars>>

\* ------------------------------------------------------------ environment
\* A running child exits by itself (or on SIGTERM) with exit code 0 or not.
ChildExit(h, ph, rc) ==
    /\ Running(h, ph)
    /\ child' = [child EXCEPT ![h][ph] = rc]
    /\ UNCHANGED <<graceVars, regVars, pc, req, flag, conflict, sigs, result, events, conn, http,
                   exc, copies, mx, out, wrote, cancVars>>

\* The last thing in the pipe of handler h's test child ("none": nothing).
LastOut(h) == IF out[h] = <<>> THEN "none" ELSE out[h][Len(out[h])]

\* The running test child writes to its standard output: a line, or bytes
\* without a newline ("part", which the next write completes to a line), or
\* it closes its standard output and runs on ("eof", after which nothing
\* can be written).
ChildWrite(h, line) ==
    /\ Running(h, "test")
    /\ wrote[h] < MaxLines
    /\ LastOut(h) /= "eof"
    /\ LastOut(h) = "part" => line \notin {"part", "eof"}
    /\ out' = [out EXCEPT ![h] = IF LastOut(h) = "part"
                                  THEN [@ EXCEPT ![Len(@)] = line]
                                  ELSE Append(@, line)]
    /\ wrote' = [wrote EXCEPT ![h] = @ + 1]
    /\ UNCHANGED <<graceVars, regVars, pc, req, flag, conflict, child, sigs, result, events, conn,
                   http, exc, copies, mx, cancVars>>

\* The handler thread of a finished request ends; a later request is served
\* by a new thread with fresh locals (no canceller still holds its child).
Reset(h) ==
    /\ pc[h] = "done"
    /\ \A c \in Cancellers : cpc[c] \in {"idle", "done"} \/ cproc[c].owner /= h
    /\ pc' = [pc EXCEPT ![h] = "idle"]
    /\ req' = [req EXCEPT ![h] = NoReq]
    /\ flag' = [flag EXCEPT ![h] = FALSE]
    /\ conflict' = [conflict EXCEPT ![h] = NoConflict]
    /\ child' = [child EXCEPT ![h] = [ph \in Phases |-> "none"]]
    /\ sigs' = [sigs EXCEPT ![h] = [ph \in Phases |-> {}]]
    /\ result' = [result EXCEPT ![h] = NoResult]
    /\ events' = [events EXCEPT ![h] = <<>>]
    /\ conn' = [conn EXCEPT ![h] = TRUE]
    /\ http' = [http EXCEPT ![h] = 0]
    /\ exc' = [exc EXCEPT ![h] = FALSE]
    /\ copies' = [copies EXCEPT ![h] = 0]
    /\ mx' = [mx EXCEPT ![h] = NoMx]
    /\ out' = [out EXCEPT ![h] = <<>>]
    /\ wrote' = [wrote EXCEPT ![h] = 0]
    /\ UNCHANGED <<graceVars, regVars, cancVars>>

\* ---------------------------------------------------------- POST /cancel
\* cancel_request under the lock: look the record up, set its Event, read proc.
CancelBegin(c, request_id) ==
    LET rec == cancel_lookup(byProject, reqToProject, request_id) IN
    /\ cpc[c] = "idle"
    /\ LockFree
    /\ creq' = [creq EXCEPT ![c] = request_id]
    /\ IF rec = NoRecord
       THEN /\ cret' = [cret EXCEPT ![c] = "not_found"]
            /\ cpc' = [cpc EXCEPT ![c] = "done"]
            /\ UNCHANGED <<flag, cproc>>
       ELSE /\ flag' = [flag EXCEPT ![rec.owner] = TRUE]
            /\ cproc' = [cproc EXCEPT ![c] = [owner |-> rec.owner, phase |-> rec.proc]]
            /\ cpc' = [cpc EXCEPT ![c] = "poll"]
            /\ UNCHANGED cret
    /\ UNCHANGED <<graceVars, regVars, pc, req, conflict, child, sigs, result, events, conn, http,
                   exc, copies, mx, out, wrote>>

\* cancel_request without the poll: "cancelled" for any attached child.
cancel_status_no_poll(proc) ==
    IF proc.phase /= "none" THEN "cancelled" ELSE "no_process"

\* The status cancel_request returns, decided outside the lock by
\* "proc is not None and proc.poll() is None".
cancel_status(proc) ==
    IF proc.phase /= "none" /\ Running(proc.owner, proc.phase)
    THEN "cancelled" ELSE "no_process"

\* Outside the lock: poll, and terminate_process_gracefully up to SIGTERM.
CancelPoll(c) ==
    LET st == cancel_status(cproc[c]) IN
    /\ cpc[c] = "poll"
    /\ IF st = "cancelled"
       THEN /\ sigs' = terminate_start(cproc[c].owner, cproc[c].phase).sigs
            /\ cpc' = [cpc EXCEPT ![c] = "termwait"]
            /\ UNCHANGED cret
       ELSE /\ cret' = [cret EXCEPT ![c] = st]
            /\ cpc' = [cpc EXCEPT ![c] = "done"]
            /\ UNCHANGED sigs
    /\ UNCHANGED <<graceVars, regVars, pc, req, flag, conflict, child, result, events, conn, http,
                   exc, copies, mx, out, wrote, creq, cproc>>

\* terminate_process_gracefully in the canceller: the child exited in the
\* grace window.
CancelTermWait(c) ==
    /\ cpc[c] = "termwait"
    /\ Exited(cproc[c].owner, cproc[c].phase)
    /\ cret' = [cret EXCEPT ![c] = "cancelled"]
    /\ cpc' = [cpc EXCEPT ![c] = "done"]
    /\ cgrace' = [cgrace EXCEPT ![c] = 0]
    /\ UNCHANGED <<hgrace, regVars, pc, req, flag, conflict, child, sigs, result, events, conn,
                   http, exc, copies, mx, out, wrote, creq, cproc>>

\* The grace window expired: SIGKILL to the process group.
CancelTermKill(c) ==
    /\ cpc[c] = "termwait"
    /\ Running(cproc[c].owner, cproc[c].phase)
    /\ cgrace[c] = GracePeriod
    /\ child' = [child EXCEPT ![cproc[c].owner][cproc[c].phase] = "rc1"]
    /\ \E refused \in BOOLEAN :
           sigs' = [sigs EXCEPT ![cproc[c].owner][cproc[c].phase] = force_kill(@, refused)]
    /\ cret' = [cret EXCEPT ![c] = "cancelled"]
    /\ cpc' = [cpc EXCEPT ![c] = "done"]
    /\ cgrace' = [cgrace EXCEPT ![c] = 0]
    /\ UNCHANGED <<hgrace, regVars, pc, req, flag, conflict, result, events, conn, http, exc,
                   copies, mx, out, wrote, creq, cproc>>

\* The canceller thread of an answered /cancel request ends; a later
\* /cancel request is served by a new thread.
CancelReset(c) ==
    /\ cpc[c] = "done"
    /\ cpc' = [cpc EXCEPT ![c] = "idle"]
    /\ creq' = [creq EXCEPT ![c] = "none"]
    /\ cproc' = [cproc EXCEPT ![c] = NoProc]
    /\ cret' = [cret EXCEPT ![c] = "none"]
    /\ UNCHANGED <<graceVars, regVars, pc, req, flag, conflict, child, sigs, result, events,
                   conn, http, exc, copies, mx, out, wrote>>

\* -------------------------------------------------- line-stream multiplexer
\* The line handling with an ordinal spent on summary records as well.
mx_line_counts_summary(m, line) ==
    IF line = "count" THEN [m |-> [m EXCEPT !.test_total = 2], ev |-> "none"]
    ELSE IF line \in {"sum0", "sum1"}
    THEN [m |-> [m EXCEPT !.summary = line, !.test_index = @ + 1], ev |-> "summary"]
    ELSE IF line \in {"pass", "fail"}
    THEN [m |-> [m EXCEPT !.test_index = @ + 1,
                          !.failures = IF line = "fail" THEN @ + 1 ELSE @],
          ev |-> "test_result"]
    ELSE [m |-> m, ev |-> "none"]

\* The line handling without "if not isinstance(item, dict)": a JSON list
\* that holds the string test_count passes the test "test_count" in item.
mx_line_no_object_check(m, line) ==
    IF line \in {"empty", "notjson"} THEN [m |-> m, ev |-> "none"]
    ELSE IF line \in {"count", "notobject"}
    THEN [m |-> [m EXCEPT !.test_total = 2], ev |-> "none"]
    ELSE IF line \in {"sum0", "sum1"}
    THEN [m |-> [m EXCEPT !.summary = line], ev |-> "summary"]
    ELSE IF line \in {"pass", "fail"}
    THEN [m |-> [m EXCEPT !.test_index = @ + 1,
                          !.failures = IF line = "fail" THEN @ + 1 ELSE @],
          ev |-> "test_result"]
    ELSE [m |-> m, ev |-> "none"]

\* The locals of run_cdcl_test_streaming after one line of child output, and
\* the event the line produces ("none": no event).  A line that is empty
\* after strip(), is not JSON, or is JSON but no object is skipped before
\* its shape is looked at; "junk" is an object of no recognised shape.
mx_line(m, line) ==
    IF line \in {"empty", "notjson", "notobject"} THEN [m |-> m, ev |-> "none"]
    ELSE IF line = "count" THEN [m |-> [m EXCEPT !.test_total = 2], ev |-> "none"]
    ELSE IF line \in {"sum0", "sum1"}
    THEN [m |-> [m EXCEPT !.summary = line], ev |-> "summary"]
    ELSE IF line \in {"pass", "fail"}
    THEN [m |-> [m EXCEPT !.test_index = @ + 1,
                          !.failures = IF line = "fail" THEN @ + 1 ELSE @],
          ev |-> "test_result"]
    ELSE [m |-> m, ev |-> "none"]

\* The condition of "while proc.poll() is None and not client_disconnected",
\* with the deadline check that breaks out of the loop.
mx_continue(h) == Running(h, "test") /\ ~(mx[h].elapsed > TestTimeout)

\* The loop is left: the child exited or the deadline passed.
MxExit(h) ==
    /\ pc[h] = "mx_head"
    /\ ~mx_continue(h)
    /\ pc' = [pc EXCEPT ![h] = "mx_post"]
    /\ UNCHANGED <<graceVars, regVars, req, flag, conflict, child, sigs, result, events, conn, http,
                   exc, copies, mx, out, wrote, cancVars>>

\* One iteration in which select reports the pipe readable: one readline,
\* the line decoded and forwarded.
MxRead(h) ==
    /\ \/ pc[h] = "mx_head" /\ mx_continue(h)
       \/ pc[h] = "mx_readline"
    /\ out[h] /= <<>>
    /\ Head(out[h]) \notin {"part", "eof"}
    /\ \E up \in Link(h, mx_line(mx[h], Head(out[h])).ev /= "none") :
         LET l == mx_line(mx[h], Head(out[h]))
             sent == l.ev /= "none"
             lost == sent /\ ~up
             e == [Ev(l.ev, "test", Head(out[h]), up) EXCEPT
                      !.index = IF l.ev = "test_result" THEN l.m.test_index ELSE 0,
                      !.total = IF l.ev = "test_result" THEN l.m.test_total ELSE -1]
         IN
         /\ conn' = [conn EXCEPT ![h] = up]
         /\ mx' = [mx EXCEPT ![h] = [l.m EXCEPT !.client_disconnected = lost]]
         /\ events' = [events EXCEPT ![h] = IF sent THEN Append(@, e) ELSE @]
         /\ pc' = [pc EXCEPT ![h] = IF lost THEN "mx_post" ELSE "mx_head"]
    /\ out' = [out EXCEPT ![h] = Tail(@)]
    /\ UNCHANGED <<graceVars, regVars, req, flag, conflict, child, sigs, result, http, exc,
                   copies, wrote, cancVars>>

\* select reports the pipe readable for bytes without a newline, and
\* readline() is called: it returns only with a whole line or at end of file.
MxBlock(h) ==
    /\ pc[h] = "mx_head"
    /\ mx_continue(h)
    /\ out[h] /= <<>>
    /\ Head(out[h]) = "part"
    /\ pc' = [pc EXCEPT ![h] = "mx_readline"]
    /\ UNCHANGED <<graceVars, regVars, req, flag, conflict, child, sigs, result, events, conn,
                   http, exc, copies, mx, out, wrote, cancVars>>

\* A second passes while the handler is blocked in readline().
MxBlockedTick(h) ==
    /\ pc[h] = "mx_readline"
    /\ Running(h, "test")
    /\ out[h] /= <<>>
    /\ Head(out[h]) = "part"
    /\ mx[h].elapsed <= TestTimeout + 1
    /\ mx' = [mx EXCEPT ![h].elapsed = @ + 1]
    /\ UNCHANGED <<graceVars, regVars, pc, req, flag, conflict, child, sigs, result, events,
                   conn, http, exc, copies, out, wrote, cancVars>>

\* The child exited with the line unfinished: readline() returns the bytes
\* at end of file; they are no JSON object and the loop goes on.
MxEndOfFile(h) ==
    /\ pc[h] = "mx_readline"
    /\ ~Running(h, "test")
    /\ out[h] /= <<>>
    /\ Head(out[h]) = "part"
    /\ out' = [out EXCEPT ![h] = Tail(@)]
    /\ pc' = [pc EXCEPT ![h] = "mx_head"]
    /\ UNCHANGED <<graceVars, regVars, req, flag, conflict, child, sigs, result, events, conn,
                   http, exc, copies, mx, wrote, cancVars>>

\* The child closed its standard output and runs on: select reports the
\* pipe readable at once, readline() returns "" and the loop continues
\* without waiting, one iteration after the other, while a second passes.
MxSpin(h) ==
    /\ pc[h] = "mx_head"
    /\ mx_continue(h)
    /\ out[h] /= <<>>
    /\ Head(out[h]) = "eof"
    /\ mx' = [mx EXCEPT ![h].elapsed = @ + 1]
    /\ UNCHANGED <<graceVars, regVars, pc, req, flag, conflict, child, sigs, result, events,
                   conn, http, exc, copies, out, wrote, cancVars>>

\* A keep-alive sent on every tick without output.
keepalive_every_tick(now, last_keepalive) == TRUE

\* "(now - last_keepalive).total_seconds() >= keepalive_interval".
keepalive_due(now, last_keepalive) == now - last_keepalive >= KeepaliveInterval

\* One iteration in which select times out after 1 second: the keep-alive.
MxTick(h) ==
    \E up \in Link(h, keepalive_due(mx[h].elapsed + 1, mx[h].last_keepalive)) :
    LET now == mx[h].elapsed + 1
        due == keepalive_due(now, mx[h].last_keepalive)
        lost == due /\ ~up
    IN
    /\ pc[h] = "mx_head"
    /\ mx_continue(h)
    /\ out[h] = <<>>
    /\ conn' = [conn EXCEPT ![h] = up]
    /\ mx' = [mx EXCEPT ![h].elapsed = now,
                        ![h].last_keepalive = IF due /\ up THEN now ELSE @,
                        ![h].client_disconnected = lost]
    /\ events' = [events EXCEPT ![h] =
                    IF due THEN Append(@, Ev("keep-alive", "test", "-", up)) ELSE @]
    /\ pc' = [pc EXCEPT ![h] = IF lost THEN "mx_post" ELSE "mx_head"]
    /\ UNCHANGED <<graceVars, regVars, req, flag, conflict, child, sigs, result, http, exc,
                   copies, out, wrote, cancVars>>

\* The verdicts of run_cdcl_test_streaming with the summary left out of the
\* timeout verdict.
mx_verdict_drops_summary(h, why) ==
    LET m == mx[h] IN
    IF why = "raise"
    THEN Verdict("error", "Execution error")
    ELSE IF why = "disconnect"
    THEN [Verdict("cancelled", "Client disconnected") EXCEPT !.summary = m.summary]
    ELSE IF why = "cancel"
    THEN [Verdict("cancelled", "Cancelled") EXCEPT !.summary = m.summary]
    ELSE IF why = "timeout"
    THEN [status |-> "timeout", message |-> "Timeout with partial results",
          summary |-> "none", partial |-> TRUE]
    ELSE IF child[h].test = "rc0" /\ m.summary \in {"none", "sum0"}
    THEN [Verdict("pass", "All tests passed") EXCEPT !.summary = m.summary]
    ELSE [Verdict("fail", "test(s) failed") EXCEPT !.summary = m.summary]

\* The verdict of run_cdcl_test_streaming for the reason it left by.
mx_verdict(h, why) ==
    LET m == mx[h] IN
    IF why = "raise"
    THEN Verdict("error", "Execution error")
    ELSE IF why = "disconnect"
    THEN [Verdict("cancelled", "Client disconnected") EXCEPT !.summary = m.summary]
    ELSE IF why = "cancel"
    THEN [Verdict("cancelled", "Cancelled") EXCEPT !.summary = m.summary]
    ELSE IF why = "timeout"
    THEN [status |-> "timeout", message |-> "Timeout with partial results",
          summary |-> m.summary, partial |-> TRUE]
    ELSE IF child[h].test = "rc0" /\ m.summary \in {"none", "sum0"}
    THEN [Verdict("pass", "All tests passed") EXCEPT !.summary = m.summary]
    ELSE [Verdict("fail", "test(s) failed") EXCEPT !.summary = m.summary]

\* The post-loop checks without the one of client_disconnected.
mx_why_ignores_disconnect(h) ==
    IF flag[h] THEN "cancel"
    ELSE IF Running(h, "test") THEN "timeout"
    ELSE "exit"

\* Why run_cdcl_test_streaming leaves, in the order the code tests it.
mx_why(h) ==
    IF mx[h].client_disconnected THEN "disconnect"
    ELSE IF flag[h] THEN "cancel"
    ELSE IF Running(h, "test") THEN "timeout"
    ELSE "exit"

\* An iteration of the loop raises (readline cannot decode the bytes the
\* child wrote): "except Exception" of run_cdcl_test_streaming terminates
\* the child if it runs and returns the error verdict.
MxRaise(h) ==
    /\ pc[h] = "mx_head"
    /\ mx_continue(h)
    /\ out[h] /= <<>>
    /\ out' = [out EXCEPT ![h] = Tail(@)]
    /\ mx' = [mx EXCEPT ![h].why = "raise"]
    /\ sigs' = terminate_start(h, "test").sigs
    /\ pc' = [pc EXCEPT ![h] = "mx_termwait"]
    /\ UNCHANGED <<graceVars, regVars, req, flag, conflict, child, result, events, conn, http,
                   exc, copies, wrote, cancVars>>

\* The events a verdict adds inside run_cdcl_test_streaming.
mx_events(h, why, up) ==
    IF why = "timeout"
    THEN send_sse_event(events[h], up, "error", "test", "timed out")
    ELSE events[h]

\* After the loop: disconnect, cancellation, timeout or normal exit; a child
\* still running is terminated (poll and SIGTERM here, the wait below).
MxPost(h) ==
    LET why == mx_why(h)
        t == terminate_start(h, "test")
    IN
    /\ pc[h] = "mx_post"
    /\ mx' = [mx EXCEPT ![h].why = why]
    /\ IF Running(h, "test")
       THEN /\ sigs' = t.sigs
            /\ pc' = [pc EXCEPT ![h] = "mx_termwait"]
            /\ UNCHANGED result
       ELSE /\ result' = [result EXCEPT ![h].test = mx_verdict(h, why)]
            /\ pc' = [pc EXCEPT ![h] = "test_done"]
            /\ UNCHANGED sigs
    /\ UNCHANGED <<graceVars, regVars, req, flag, conflict, child, events, conn, http, exc, copies,
                   out, wrote, cancVars>>

\* terminate_process_gracefully in the multiplexer: the child exited in the
\* grace window.
MxTermWait(h) ==
    \E up \in Link(h, mx[h].why = "timeout") :
    /\ pc[h] = "mx_termwait"
    /\ Exited(h, "test")
    /\ hgrace' = [hgrace EXCEPT ![h] = 0]
    /\ conn' = [conn EXCEPT ![h] = up]
    /\ result' = [result EXCEPT ![h].test = mx_verdict(h, mx[h].why)]
    /\ events' = [events EXCEPT ![h] = mx_events(h, mx[h].why, up)]
    /\ pc' = [pc EXCEPT ![h] = "test_done"]
    /\ UNCHANGED <<cgrace, regVars, req, flag, conflict, child, sigs, http, exc, copies,
                   mx, out, wrote, cancVars>>

\* The grace window expired: SIGKILL to the process group.
MxTermKill(h) ==
    \E up \in Link(h, mx[h].why = "timeout") :
    /\ pc[h] = "mx_termwait"
    /\ Running(h, "test")
    /\ hgrace[h] = GracePeriod
    /\ hgrace' = [hgrace EXCEPT ![h] = 0]
    /\ conn' = [conn EXCEPT ![h] = up]
    /\ child' = [child EXCEPT ![h].test = "rc1"]
    /\ \E refused \in BOOLEAN : sigs' = [sigs EXCEPT ![h].test = force_kill(@, refused)]
    /\ result' = [result EXCEPT ![h].test = mx_verdict(h, mx[h].why)]
    /\ events' = [events EXCEPT ![h] = mx_events(h, mx[h].why, up)]
    /\ pc' = [pc EXCEPT ![h] = "test_done"]
    /\ UNCHANGED <<cgrace, regVars, req, flag, conflict, http, exc, copies, mx, out, wrote,
                   cancVars>>

\* ------------------------------------- the forced kill as its own step
\* terminate_process_gracefully holds no lock and does not poll again
\* between "except subprocess.TimeoutExpired" and os.getpgid(proc.pid):
\* other threads run between the expiry of the grace window and the kill.

\* The worker of handler o has waited for the exited child of phase ph: its
\* runner returned a verdict after communicate() or poll() (the generic
\* error verdict of a buffered runner is returned without either).
ReapedByWorker(o, ph) ==
    /\ Exited(o, ph)
    /\ result[o][ph].status /= "none"
    /\ result[o][ph].message /= "Execution error"

\* A canceller has waited for the exited child: its
\* terminate_process_gracefully returned from communicate().
ReapedByCanceller(o, ph) ==
    /\ Exited(o, ph)
    /\ \E c \in Cancellers :
          /\ cproc[c] = [owner |-> o, phase |-> ph]
          /\ cpc[c] = "done"
          /\ cret[c] = "cancelled"

\* os.getpgid(proc.pid) and os.killpg of lines 198-199 for a child that has
\* exited.  A child nobody waited for still owns its pid and its group takes
\* the signal.  After a wait the pid is free: the lookup fails and the
\* fallback proc.kill() sends nothing (returncode is set), or the pid has
\* been given to a new process and its group is killed ("KILLPG_STALE").
late_kill(s, reaped, reused) ==
    IF ~reaped THEN s \cup {"KILLPG"}
    ELSE IF reused THEN s \cup {"KILLPG_STALE"}
    ELSE s \cup {"KILLPG_REFUSED"}

\* communicate(timeout=grace_period) raises TimeoutExpired in the canceller.
CancelTermExpire(c) ==
    /\ cpc[c] = "termwait"
    /\ Running(cproc[c].owner, cproc[c].phase)
    /\ cgrace[c] = GracePeriod
    /\ cpc' = [cpc EXCEPT ![c] = "termkill"]
    /\ cgrace' = [cgrace EXCEPT ![c] = 0]
    /\ UNCHANGED <<hgrace, regVars, pc, req, flag, conflict, child, sigs, result, events, conn,
                   http, exc, copies, mx, out, wrote, creq, cproc, cret>>

\* The canceller's forced kill and communicate(timeout=1).
CancelGroupKill(c) ==
    LET o == cproc[c].owner
        ph == cproc[c].phase
    IN
    /\ cpc[c] = "termkill"
    /\ IF Running(o, ph)
       THEN /\ child' = [child EXCEPT ![o][ph] = "rc1"]
            /\ \E refused \in BOOLEAN :
                   sigs' = [sigs EXCEPT ![o][ph] = force_kill(@, refused)]
       ELSE /\ \E reused \in BOOLEAN :
                   sigs' = [sigs EXCEPT ![o][ph] =
                               late_kill(@, ReapedByWorker(o, ph), reused)]
            /\ UNCHANGED child
    /\ cret' = [cret EXCEPT ![c] = "cancelled"]
    /\ cpc' = [cpc EXCEPT ![c] = "done"]
    /\ UNCHANGED <<graceVars, regVars, pc, req, flag, conflict, result, events, conn, http, exc,
                   copies, mx, out, wrote, creq, cproc>>

\* communicate(timeout=grace_period) raises TimeoutExpired in the multiplexer.
MxTermExpire(h) ==
    /\ pc[h] = "mx_termwait"
    /\ Running(h, "test")
    /\ hgrace[h] = GracePeriod
    /\ pc' = [pc EXCEPT ![h] = "mx_termkill"]
    /\ hgrace' = [hgrace EXCEPT ![h] = 0]
    /\ UNCHANGED <<cgrace, regVars, req, flag, conflict, child, sigs, result, events, conn,
                   http, exc, copies, mx, out, wrote, cancVars>>

\* The multiplexer's forced kill, communicate(timeout=1) and verdict.
MxGroupKill(h) ==
    \E up \in Link(h, mx[h].why = "timeout") :
    /\ pc[h] = "mx_termkill"
    /\ IF Running(h, "test")
       THEN /\ child' = [child EXCEPT ![h].test = "rc1"]
            /\ \E refused \in BOOLEAN :
                   sigs' = [sigs EXCEPT ![h].test = force_kill(@, refused)]
       ELSE /\ \E reused \in BOOLEAN :
                   sigs' = [sigs EXCEPT ![h].test =
                               late_kill(@, ReapedByCanceller(h, "test"), reused)]
            /\ UNCHANGED child
    /\ conn' = [conn EXCEPT ![h] = up]
    /\ result' = [result EXCEPT ![h].test = mx_verdict(h, mx[h].why)]
    /\ events' = [events EXCEPT ![h] = mx_events(h, mx[h].why, up)]
    /\ pc' = [pc EXCEPT ![h] = "test_done"]
    /\ UNCHANGED <<graceVars, regVars, req, flag, conflict, http, exc, copies, mx, out, wrote,
                   cancVars>>

\* ------------------------------------------------------------------ time
\* The threads waiting in communicate(timeout=grace_period).
GraceWaitingH == {h \in Handlers : pc[h] \in {"build_termwait", "test_termwait", "mx_termwait"}}
GraceWaitingC == {c \in Cancellers : cpc[c] = "termwait"}

\* One tick of time passes for every thread inside the grace window; a wait
\* whose timeout has been reached raises TimeoutExpired before more time passes.
Tick ==
    /\ GraceWaitingH \cup GraceWaitingC /= {}
    /\ \A h \in GraceWaitingH : hgrace[h] < GracePeriod
    /\ \A c \in GraceWaitingC : cgrace[c] < GracePeriod
    /\ hgrace' = [h \in Handlers |-> IF h \in GraceWaitingH THEN hgrace[h] + 1 ELSE hgrace[h]]
    /\ cgrace' = [c \in Cancellers |-> IF c \in GraceWaitingC THEN cgrace[c] + 1 ELSE cgrace[c]]
    /\ UNCHANGED <<regVars, pc, req, flag, conflict, child, sigs, result, events, conn,
                   http, exc, copies, mx, out, wrote, cancVars>>

\* ---------------------------------------------------------- specifications
LineKinds == {"fail", "sum0"}

\* The steps of one handler thread that has been admitted.
Pipeline(h) ==
    \/ Begin(h)
    \/ \E ph \in Phases : SupCheck(h, ph)
    \/ \E ph \in Phases : SupSpawn(h, ph)
    \/ \E ph \in Phases : SupSpawnFail(h, ph)
    \/ \E ph \in Phases : SupRegister(h, ph)
    \/ \E ph \in Phases : SupWait(h, ph)
    \/ \E ph \in Phases : SupTimeout(h, ph)
    \/ \E ph \in Phases : SupRaise(h, ph)
    \/ \E ph \in Phases : SupTermStart(h, ph)
    \/ \E ph \in Phases : SupTermWait(h, ph)
    \/ \E ph \in Phases : SupTermKill(h, ph)
    \/ BuildDone(h)
    \/ Boundary(h)
    \/ TestDone(h)
    \/ Respond(h)
    \/ Finally(h)
    \/ Except(h)

Multiplexer(h) ==
    \/ MxExit(h)
    \/ MxRead(h)
    \/ MxTick(h)
    \/ MxRaise(h)
    \/ MxPost(h)
    \/ MxTermWait(h)
    \/ MxTermKill(h)

Cancel(c) ==
    \/ \E r \in RequestIds : CancelBegin(c, r)
    \/ CancelPoll(c)
    \/ CancelTermWait(c)
    \/ CancelTermKill(c)
    \/ CancelReset(c)

Environment(h) ==
    \/ \E ph \in Phases, rc \in {"rc0", "rc1"} : ChildExit(h, ph, rc)
    \/ \E l \in LineKinds : ChildWrite(h, l)

\* One submission (handler thread 1) with every input, and cancel requests
\* that arrive one after the other.
Next ==
    \/ \E sse, filters, exists, try_py \in BOOLEAN :
           Receive(1, "p1", "r1", sse, filters, exists, try_py)
    \/ Pipeline(1)
    \/ Multiplexer(1)
    \/ Environment(1)
    \/ Cancel(1)
    \/ Tick

Spec == Init /\ [][Next]_vars

\* Concurrent submissions over the buffered transport whose builds fail
\* within the deadline: every registry call of do_POST and run_moon_build, in
\* every interleaving, with handler threads ending and new requests arriving.
AdmittedSteps(h) ==
    \/ Begin(h)
    \/ SupCheck(h, "build")
    \/ SupSpawn(h, "build")
    \/ SupRegister(h, "build")
    \/ SupWait(h, "build")
    \/ BuildDone(h)
    \/ Respond(h)
    \/ Finally(h)
    \/ Except(h)

NextAdmission ==
    \/ \E h \in Handlers, p \in Projects, r \in RequestIds :
           Receive(h, p, r, FALSE, FALSE, TRUE, FALSE)
    \/ \E h \in Handlers : ReplyConflict(h)
    \/ \E h \in Handlers : AdmittedSteps(h)
    \/ \E h \in Handlers : ChildExit(h, "build", "rc1")
    \/ \E h \in Handlers : Reset(h)

SpecAdmission == Init /\ [][NextAdmission]_vars

\* One submission per handler thread, at the same time, over both transports,
\* with builds that fail within the deadline: rejected submissions next to
\* admitted ones, with the replies of both transports.
NextReject ==
    \/ \E h \in Handlers, p \in Projects, r \in RequestIds, sse \in BOOLEAN :
           Receive(h, p, r, sse, FALSE, TRUE, FALSE)
    \/ \E h \in Handlers : ReplyConflict(h)
    \/ \E h \in Handlers : AdmittedSteps(h)
    \/ \E h \in Handlers : ChildExit(h, "build", "rc1")

SpecReject == Init /\ [][NextReject]_vars

\* One buffered submission of a project without try.py, and cancel requests
\* for it and for an unknown id that arrive one after the other and at the
\* same time, on every canceller thread.
BufferedSteps(h) ==
    \/ Begin(h)
    \/ \E ph \in Phases : SupCheck(h, ph)
    \/ \E ph \in Phases : SupSpawn(h, ph)
    \/ \E ph \in Phases : SupSpawnFail(h, ph)
    \/ \E ph \in Phases : SupRegister(h, ph)
    \/ \E ph \in Phases : SupWait(h, ph)
    \/ \E ph \in Phases : SupTimeout(h, ph)
    \/ \E ph \in Phases : SupRaise(h, ph)
    \/ \E ph \in Phases : SupTermStart(h, ph)
    \/ \E ph \in Phases : SupTermWait(h, ph)
    \/ \E ph \in Phases : SupTermKill(h, ph)
    \/ BuildDone(h)
    \/ Boundary(h)
    \/ TestDone(h)
    \/ Respond(h)
    \/ Finally(h)
    \/ Except(h)

NextCancel ==
    \/ Receive(1, "p1", "r1", FALSE, FALSE, TRUE, FALSE)
    \/ BufferedSteps(1)
    \/ \E ph \in Phases, rc \in {"rc0", "rc1"} : ChildExit(1, ph, rc)
    \/ \E c \in Cancellers : Cancel(c)
    \/ Tick

SpecCancel == Init /\ [][NextCancel]_vars

\* One streaming submission for a try.py project, whose test child writes
\* every kind of line: a test-count record, test results, summaries with
\* and without failures, an object of no recognised shape, an empty line,
\* a line that is not JSON and a JSON value that is not an object.
AllLines == {"count", "pass", "fail", "sum0", "sum1", "junk",
             "empty", "notjson", "notobject"}

StreamingSteps(h) ==
    \/ Begin(h)
    \/ \E ph \in Phases : SupCheck(h, ph)
    \/ \E ph \in Phases : SupSpawn(h, ph)
    \/ \E ph \in Phases : SupSpawnFail(h, ph)
    \/ \E ph \in Phases : SupRegister(h, ph)
    \/ SupWait(h, "build")
    \/ SupTimeout(h, "build")
    \/ SupRaise(h, "build")
    \/ SupTermStart(h, "build")
    \/ SupTermWait(h, "build")
    \/ SupTermKill(h, "build")
    \/ BuildDone(h)
    \/ Boundary(h)
    \/ TestDone(h)
    \/ Finally(h)
    \/ Except(h)

NextMx ==
    \/ Receive(1, "p1", "r1", TRUE, FALSE, TRUE, TRUE)
    \/ StreamingSteps(1)
    \/ Multiplexer(1)
    \/ \E ph \in Phases, rc \in {"rc0", "rc1"} : ChildExit(1, ph, rc)
    \/ \E l \in AllLines : ChildWrite(1, l)
    \/ Tick

SpecMx == Init /\ [][NextMx]_vars

\* One streaming submission for a try.py project whose test child is silent,
\* writes lines, writes bytes without a newline, or closes its standard
\* output and runs on.
ChildOutput == {"junk", "pass", "part", "eof"}

Readline(h) ==
    \/ MxBlock(h)
    \/ MxBlockedTick(h)
    \/ MxEndOfFile(h)
    \/ MxSpin(h)

NextDeadline ==
    \/ Receive(1, "p1", "r1", TRUE, FALSE, TRUE, TRUE)
    \/ StreamingSteps(1)
    \/ Multiplexer(1)
    \/ Readline(1)
    \/ \E ph \in Phases, rc \in {"rc0", "rc1"} : ChildExit(1, ph, rc)
    \/ \E l \in ChildOutput : ChildWrite(1, l)
    \/ Tick

SpecDeadline == Init /\ [][NextDeadline]_vars

\* One streaming submission for a try.py project and one canceller, with
\* the expiry of a grace window and the forced kill as separate steps of
\* terminate_process_gracefully in the canceller and in the multiplexer.
NextRace ==
    \/ Receive(1, "p1", "r1", TRUE, FALSE, TRUE, TRUE)
    \/ StreamingSteps(1)
    \/ MxExit(1) \/ MxRead(1) \/ MxTick(1) \/ MxRaise(1) \/ MxPost(1)
    \/ MxTermWait(1) \/ MxTermExpire(1) \/ MxGroupKill(1)
    \/ \E ph \in Phases, rc \in {"rc0", "rc1"} : ChildExit(1, ph, rc)
    \/ \E l \in LineKinds : ChildWrite(1, l)
    \/ \E r \in RequestIds : CancelBegin(1, r)
    \/ CancelPoll(1) \/ CancelTermWait(1) \/ CancelTermExpire(1) \/ CancelGroupKill(1)
    \/ CancelReset(1)
    \/ Tick

SpecRace == Init /\ [][NextRace]_vars

\* Every thread gets to run, and every wait of a handler thread is bounded
\* by a deadline: communicate(timeout=...), select(timeout=1.0).
\* A canceller inside terminate_process_gracefully returns, and time passes.
CancelTerminate(c) == CancelTermWait(c) \/ CancelTermKill(c)

SpecLive ==
    /\ Init /\ [][Next]_vars
    /\ WF_vars(Pipeline(1)) /\ WF_vars(Multiplexer(1))
    /\ \A c \in Cancellers : WF_vars(CancelTerminate(c))
    /\ WF_vars(Tick)

\* ------------------------------------------------------------------ claims
\* The Active-request record installed by handler h's admission is in the registry.
Admitted(h) == \E p \in Projects : byProject[p].owner = h

\* Handler h's pipeline is in the destination workspace of its project:
\* copy_project has run and handle_proj_submit has not returned.
Working(h) ==
    pc[h] \in {"build_check", "build_spawn", "build_register", "build_wait",
               "build_term", "build_termwait", "build_done", "boundary",
               "test_check", "test_spawn", "test_register", "test_wait",
               "test_term", "test_termwait", "mx_head", "mx_post", "mx_termwait",
               "test_done"}

\* Handler h takes the step that calls try_register_request.
Admission(h) == pc[h] = "idle" /\ pc'[h] /= "idle"

\* The positions of the done events in an event log.
DoneAt(log) == {i \in 1..Len(log) : log[i].e = "done"}

\* C1: in every reachable state the registry holds at most one Active-request
\* record per project id and at most one per submission id.
C1_AdmissionSingleton ==
    /\ \A r \in RequestIds :
           Cardinality({p \in Projects : byProject[p].request_id = r}) <= 1
    /\ \A p \in Projects :
           Cardinality({h \in Handlers : byProject[p].owner = h}) <= 1

\* A request is being rejected for its id while a record with that id is held.
C1_Witness ==
    \E h \in Handlers :
        /\ pc[h] = "conflict"
        /\ conflict[h].reason = "request_id_busy"
        /\ \E p \in Projects : byProject[p].request_id = req[h].request_id

\* C2: while a record exists for a project, try_register_request rejects every
\* other submission for that project with project_busy and the holder's id,
\* leaving the registry as it was; a rejected submission never runs
\* copy_project and never spawns a child.
C2_ProjectBusy ==
    /\ [][\A h \in Handlers :
            (Admission(h) /\ byProject[req'[h].project_name] /= NoRecord) =>
                /\ conflict'[h] =
                       [reason |-> "project_busy",
                        request_id |-> byProject[req'[h].project_name].request_id,
                        project_name |-> req'[h].project_name]
                /\ pc'[h] = "conflict"
                /\ byProject' = byProject
                /\ reqToProject' = reqToProject]_vars
    /\ [](\A h \in Handlers :
            conflict[h] /= NoConflict =>
                /\ pc[h] \in {"conflict", "done"}
                /\ copies[h] = 0
                /\ \A ph \in Phases : child[h][ph] = "none")

\* A submission is rejected with the id of another submission, the holder.
C2_Witness ==
    \E h \in Handlers :
        /\ pc[h] = "done"
        /\ conflict[h].reason = "project_busy"
        /\ conflict[h].request_id /= req[h].request_id
        /\ byProject[req[h].project_name].request_id = conflict[h].request_id

\* C3: a submission whose id is held by a record of another project, for a
\* project that is free, is rejected with request_id_busy naming the project
\* that holds the id, and is not admitted.
C3_RequestIdBusy ==
    [][\A h \in Handlers : \A q \in Projects :
          (/\ Admission(h)
           /\ byProject[req'[h].project_name] = NoRecord
           /\ q /= req'[h].project_name
           /\ byProject[q].request_id = req'[h].request_id) =>
              /\ conflict'[h] = [reason |-> "request_id_busy",
                                 request_id |-> req'[h].request_id,
                                 project_name |-> q]
              /\ pc'[h] = "conflict"
              /\ byProject' = byProject
              /\ reqToProject' = reqToProject]_vars

\* A submission is rejected for its id, which another project's record holds.
C3_Witness ==
    \E h \in Handlers :
        /\ conflict[h].reason = "request_id_busy"
        /\ conflict[h].project_name /= req[h].project_name
        /\ byProject[conflict[h].project_name].request_id = req[h].request_id
        /\ byProject[req[h].project_name] = NoRecord

\* C4: the Active-request record of every admitted submission is eventually
\* removed from the registry, on every exit path of the handler.
C4_ReleaseOnExit == \A h \in Handlers : Admitted(h) ~> ~Admitted(h)

\* An admitted submission has released its record after a failed reply.
C4_Witness ==
    /\ pc[1] = "done"
    /\ conflict[1] = NoConflict
    /\ exc[1]
    /\ result[1].test.status = "cancelled"
    /\ ~Admitted(1)

\* C5: a streaming submission that has ended has emitted exactly one done
\* event, and it is the last event.
C5_TerminalDone ==
    \A h \in Handlers :
        (pc[h] = "done" /\ req[h].sse) =>
            /\ Cardinality(DoneAt(events[h])) = 1
            /\ DoneAt(events[h]) = {Len(events[h])}

\* C6: no two handlers are in the destination workspace of the same project
\* at the same time.
C6_WorkspaceExclusive ==
    \A h1, h2 \in Handlers :
        (h1 /= h2 /\ Working(h1) /\ Working(h2)) =>
            req[h1].project_name /= req[h2].project_name

\* C7: a phase spawns no child once the cancellation flag is set.
C7_NoSpawnAfterCancel ==
    [][\A h \in Handlers : \A ph \in Phases :
          (child[h][ph] = "none" /\ child'[h][ph] = "running") => ~flag[h]]_vars

\* C8: a phase whose child was spawned and that returns while the cancellation
\* flag is set returns the verdict cancelled.
C8_CancelledVerdict ==
    [][\A h \in Handlers : \A ph \in Phases :
          (/\ result[h][ph].status = "none"
           /\ result'[h][ph].status /= "none"
           /\ child[h][ph] /= "none"
           /\ flag[h]) => result'[h][ph].status = "cancelled"]_vars

\* C9: cancel_request returns not_found iff no record with the id exists;
\* otherwise it sets the record's flag and returns cancelled iff the child it
\* read is attached and running when polled, no_process otherwise.
C9_CancelStatus ==
    [][\A c \in Cancellers :
          /\ (cpc[c] = "idle" /\ cpc'[c] /= "idle") =>
                LET holders == {p \in Projects : byProject[p].request_id = creq'[c]} IN
                /\ (cret'[c] = "not_found") <=> (holders = {})
                /\ \A p \in holders :
                       /\ flag'[byProject[p].owner]
                       /\ cproc'[c] = [owner |-> byProject[p].owner,
                                       phase |-> byProject[p].proc]
                       /\ cpc'[c] = "poll"
          /\ (cpc[c] = "poll" /\ cpc'[c] /= "poll") =>
                LET live == cproc[c].phase /= "none"
                            /\ child[cproc[c].owner][cproc[c].phase] = "running" IN
                /\ live => cpc'[c] = "termwait"
                /\ ~live => (cpc'[c] = "done" /\ cret'[c] = "no_process")
          /\ (cpc[c] = "termwait" /\ cpc'[c] /= "termwait") =>
                (cpc'[c] = "done" /\ cret'[c] = "cancelled")]_vars

\* A cancel found the record with a child attached and running and returned
\* cancelled; the flag of the submission is set.
C9_Witness ==
    \E c \in Cancellers :
        /\ cret[c] = "cancelled"
        /\ cproc[c].owner = 1
        /\ flag[1]
        /\ "TERM" \in sigs[1][cproc[c].phase]

\* C10: once the flag is set, the select loop of run_cdcl_test_streaming
\* starts no further iteration: a loop step taken with the flag set leaves it.
C10_ObservedAtTick ==
    [][\A h \in Handlers :
          (/\ pc[h] = "mx_head"
           /\ flag[h]
           /\ (pc'[h] /= pc[h] \/ mx'[h] /= mx[h] \/ Len(out'[h]) < Len(out[h])))
          => pc'[h] = "mx_post"]_vars

\* The threads inside communicate(timeout=grace_period) for the child of
\* phase ph of handler o, with the ticks each has waited.
GraceClocks(o, ph) ==
    {hgrace[h] : h \in {x \in GraceWaitingH : x = o /\ pc[x] \in
                           (IF ph = "build" THEN {"build_termwait"}
                            ELSE {"test_termwait", "mx_termwait"})}}
    \cup {cgrace[c] : c \in {x \in GraceWaitingC : cproc[x] = [owner |-> o, phase |-> ph]}}

C12_CancelIdempotent ==
    [][\A h \in Handlers :
          flag[h] =>
              /\ flag'[h] \/ pc'[h] = "idle"
              /\ \A ph \in Phases :
                    (/\ child[h][ph] /= "none"
                     /\ result[h][ph].status = "none"
                     /\ result'[h][ph].status /= "none")
                    => result'[h][ph].status = "cancelled"]_vars

\* C13: every done event of a streaming submission carries success true if
\* and only if the build verdict and the test verdict both have status pass.
C13_DoneSuccess ==
    \A h \in Handlers : \A i \in DoneAt(events[h]) :
        (events[h][i].status = "true") <=>
            (result[h].build.status = "pass" /\ result[h].test.status = "pass")

\* A streaming submission ended with done{success:true}.
C13_Witness ==
    /\ pc[1] = "done"
    /\ req[1].sse
    /\ \E i \in DoneAt(events[1]) : events[1][i].status = "true"

\* C14, as stated: a submission whose test runner was entered has spawned a
\* test child, and a test child is spawned only after a build verdict pass.
C14_SpawnsIff ==
    \A h \in Handlers :
        /\ pc[h] = "test_done" => child[h].test /= "none"
        /\ child[h].test /= "none" => result[h].build.status = "pass"

\* C14, amended: the pipeline enters the test runner if and only if the
\* build verdict is pass and the flag is not set when the boundary check
\* reads it; a test child is spawned only then; for any other build verdict
\* the test verdict is absent and no test child exists.
C14_BuildToTest ==
    /\ [][\A h \in Handlers :
            /\ (pc[h] = "build_done" /\ pc'[h] /= "build_done") =>
                   (pc'[h] = "boundary" <=> result[h].build.status = "pass")
            /\ (pc[h] = "boundary" /\ pc'[h] /= "boundary") =>
                   (pc'[h] = "test_check" <=> ~flag[h])
            /\ (pc[h] /= "test_check" /\ pc'[h] = "test_check") =>
                   (pc[h] = "boundary" /\ result[h].build.status = "pass" /\ ~flag[h])
            /\ (child[h].test = "none" /\ child'[h].test /= "none") =>
                   pc[h] = "test_spawn"]_vars
    /\ [](\A h \in Handlers :
            /\ pc[h] \in {"test_check", "test_spawn"} => result[h].build.status = "pass"
            /\ result[h].build.status \notin {"none", "pass"} =>
                   (result[h].test = NoVerdict /\ child[h].test = "none"))

\* The test child of a submission runs: its build passed and the boundary
\* check found the flag unset.
C14_Witness ==
    /\ child[1].test = "running"
    /\ result[1].build.status = "pass"
    /\ ~flag[1]

\* Handler h was admitted and its pipeline has gone past the source check
\* (for the streaming transport: the response headers were written).
PastChecks(h) ==
    /\ pc[h] \notin {"idle", "admitted", "conflict"}
    /\ conflict[h] = NoConflict
    /\ ~(req[h].sse /\ exc[h])

\* The e, phase and status fields of an event log.
Shape(log) == [i \in 1..Len(log) |-> <<log[i].e, log[i].phase, log[i].status>>]

\* C15: a submission whose source project does not exist ends in the error
\* state "Project not found": copy_project is not run, no child is spawned,
\* no phase has a verdict, the buffered reply is sent with 500 and the
\* streaming reply is an error event followed by done{success:false}.
C15_ProjectNotFound ==
    \A h \in Handlers :
        (PastChecks(h) /\ ~req[h].exists) =>
            /\ result[h] = [NoResult EXCEPT !.error = "Project not found"]
            /\ copies[h] = 0
            /\ \A ph \in Phases : child[h][ph] = "none"
            /\ req[h].sse => Shape(events[h]) = << <<"error", "copy", "Project not found">>,
                                                   <<"done", "-", "false">> >>
            /\ ~req[h].sse => /\ http[h] \in {0, 500}
                              /\ events[h] = <<>>
                              /\ (pc[h] = "done" /\ ~exc[h]) => http[h] = 500

\* The buffered reply for a missing project was sent with 500.
C15_Witness ==
    /\ pc[1] = "done"
    /\ ~req[1].exists
    /\ ~req[1].sse
    /\ http[1] = 500

\* C16: a submission with a per-test deadline or a test filter for a project
\* without try.py is rejected after the copy and before any child: no child
\* is spawned, no phase has a verdict, the buffered reply is sent with 500,
\* and the streaming reply has exactly one error event, with phase build,
\* followed by done{success:false}.
C16_FilterGating ==
    \A h \in Handlers :
        (PastChecks(h) /\ req[h].exists /\ req[h].filters /\ ~req[h].try_py) =>
            /\ result[h] = [NoResult EXCEPT !.error = "filters"]
            /\ copies[h] = 1
            /\ \A ph \in Phases : child[h][ph] = "none"
            /\ req[h].sse => Shape(events[h]) = << <<"request_id", "-", req[h].request_id>>,
                                                   <<"phase", "copy", "start">>,
                                                   <<"phase", "copy", "pass">>,
                                                   <<"error", "build", "filters">>,
                                                   <<"done", "-", "false">> >>
            /\ ~req[h].sse => /\ http[h] \in {0, 500}
                              /\ events[h] = <<>>
                              /\ (pc[h] = "done" /\ ~exc[h]) => http[h] = 500

\* The streaming reply of a rejected filter submission is complete.
C16_Witness ==
    /\ pc[1] = "done"
    /\ req[1].sse /\ req[1].exists /\ req[1].filters /\ ~req[1].try_py
    /\ Len(events[1]) = 5
    /\ \A i \in 1..5 : events[1][i].ok

\* C17: when the build deadline expires the build verdict has status timeout
\* and message "Timeout"; the test phase is skipped, and a streaming reply
\* ends with phase{build,fail}, error{build,"Timeout"}, done{success:false}.
C17_BuildTimeout ==
    /\ [][\A h \in Handlers :
            (pc[h] \in {"build_term", "build_termwait"} /\ pc'[h] = "build_done") =>
                /\ result'[h].build.status = "timeout"
                /\ result'[h].build.message = "Timeout"]_vars
    /\ [](\A h \in Handlers :
            (result[h].build.message = "Timeout" /\ pc[h] \in {"finally", "except", "done"}) =>
                /\ result[h].test = NoVerdict
                /\ child[h].test = "none"
                /\ req[h].sse =>
                       /\ Len(events[h]) >= 3
                       /\ SubSeq(Shape(events[h]), Len(events[h]) - 2, Len(events[h])) =
                              << <<"phase", "build", "fail">>,
                                 <<"error", "build", "Timeout">>,
                                 <<"done", "-", "false">> >>)

\* The events of one kind in an event log, in order.
EventsOf(log, kind) == SelectSeq(log, LAMBDA e : e.e = kind)

\* The summary the subscriber was last sent ("none": no summary event).
LastSummaryEvent(log) ==
    LET sm == EventsOf(log, "summary") IN
    IF sm = <<>> THEN "none" ELSE sm[Len(sm)].status

\* The multiplexer of handler h takes its post-loop step with the deadline
\* passed, the child still running and the subscriber connected.
DeadlineExpired(h) ==
    /\ pc[h] = "mx_post" /\ pc'[h] /= "mx_post"
    /\ mx[h].elapsed > TestTimeout
    /\ Running(h, "test")
    /\ ~mx[h].client_disconnected

\* C18, as stated: when the deadline has expired with the child still
\* running, the multiplexer ends with the timeout verdict.
C18_TimeoutAlways ==
    [][\A h \in Handlers : DeadlineExpired(h) => mx'[h].why = "timeout"]_vars

\* C18, amended: when the deadline has expired with the child still running
\* and the flag is not set at the post-loop check, the child is terminated
\* and the test verdict is timeout with the partial flag and the last summary
\* that was observed and forwarded; the test_result events of the k results
\* observed are in the log, numbered 1..k in order.
C18_TimeoutPartial ==
    /\ [][\A h \in Handlers :
            (DeadlineExpired(h) /\ ~flag[h]) =>
                /\ mx'[h].why = "timeout"
                /\ pc'[h] = "mx_termwait"
                /\ "TERM" \in sigs'[h].test]_vars
    /\ [](\A h \in Handlers :
            (mx[h].why = "timeout" /\ pc[h] \notin {"mx_post", "mx_termwait", "idle"}) =>
                /\ result[h].test = [status |-> "timeout",
                                     message |-> "Timeout with partial results",
                                     summary |-> LastSummaryEvent(events[h]),
                                     partial |-> TRUE]
                /\ child[h].test /= "running"
                /\ LET tr == EventsOf(events[h], "test_result") IN
                   /\ Len(tr) = mx[h].test_index
                   /\ \A i \in 1..Len(tr) : tr[i].index = i)

\* A timeout verdict that carries a forwarded summary after one forwarded test result.
C18_Witness ==
    /\ result[1].test.status = "timeout"
    /\ result[1].test.summary = "sum0"
    /\ mx[1].test_index = 1
    /\ "KILLPG" \in sigs[1].test

\* The number of events forwarded from the child or sent as keep-alive.
Forwarded(log) ==
    Len(EventsOf(log, "test_result")) + Len(EventsOf(log, "summary"))
        + Len(EventsOf(log, "keep-alive"))

\* C19: a failed write of a test_result, summary or keep-alive takes the
\* multiplexer out of its loop for good; from then on no line of the child is
\* read and nothing more is forwarded, a child still running is terminated
\* through terminate_process_gracefully, and the test verdict is cancelled
\* ("Client disconnected") with the summary seen so far.
C19_DisconnectTeardown ==
    /\ [][\A h \in Handlers :
            /\ (/\ pc[h] = "mx_head"
                /\ Len(events'[h]) = Len(events[h]) + 1
                /\ ~events'[h][Len(events'[h])].ok) =>
                   (mx'[h].client_disconnected /\ pc'[h] = "mx_post")
            /\ (mx[h].client_disconnected /\ pc'[h] /= "idle") =>
                   /\ mx'[h].client_disconnected
                   /\ Len(out'[h]) >= Len(out[h])
                   /\ Forwarded(events'[h]) = Forwarded(events[h])
                   /\ mx'[h].summary = mx[h].summary
            /\ (mx[h].client_disconnected /\ pc[h] = "mx_post" /\ pc'[h] /= "mx_post"
                /\ Running(h, "test")) =>
                   (pc'[h] = "mx_termwait" /\ "TERM" \in sigs'[h].test)]_vars
    /\ [](\A h \in Handlers :
            mx[h].client_disconnected =>
                /\ pc[h] /= "mx_head"
                /\ pc[h] \notin {"mx_post", "mx_termwait"} =>
                       /\ result[h].test =
                              [Verdict("cancelled", "Client disconnected")
                                  EXCEPT !.summary = mx[h].summary]
                       /\ child[h].test /= "running")

\* The write of a summary failed with the child running: the child was sent
\* SIGTERM and the verdict is cancelled with that summary.
C19_Witness ==
    /\ mx[1].client_disconnected
    /\ result[1].test.status = "cancelled"
    /\ result[1].test.summary = "sum0"
    /\ "TERM" \in sigs[1].test
    /\ out[1] /= <<>>

\* The multiplexer of handler h reads one line from the pipe of its child.
ReadsLine(h) ==
    /\ pc[h] = "mx_head" /\ out[h] /= <<>> /\ out'[h] = Tail(out[h])
    /\ pc'[h] \in {"mx_head", "mx_post"}

\* C20: the test_result events of a submission are numbered 1, 2, ..., N in
\* the order they are written; reading a test result writes the next
\* ordinal, reading any other line writes no test_result and spends no
\* ordinal; a test_result event has a total exactly when a test-count record
\* was read before its test result (test_total is set by a test-count record
\* and by nothing else).
C20_Ordinals ==
    /\ [](\A h \in Handlers :
            LET tr == EventsOf(events[h], "test_result") IN
            /\ Len(tr) = mx[h].test_index
            /\ \A i \in 1..Len(tr) : tr[i].index = i)
    /\ [][\A h \in Handlers :
            LET tr == EventsOf(events[h], "test_result")
                tq == EventsOf(events'[h], "test_result")
            IN
            /\ (ReadsLine(h) /\ Head(out[h]) \in {"pass", "fail"}) =>
                   /\ Len(tq) = Len(tr) + 1
                   /\ tq[Len(tq)].index = Len(tr) + 1
                   /\ (tq[Len(tq)].total /= -1) <=> (mx[h].test_total /= -1)
            /\ (ReadsLine(h) /\ Head(out[h]) \notin {"pass", "fail"}) =>
                   (tq = tr /\ mx'[h].test_index = mx[h].test_index)
            /\ (mx[h].test_total = -1 /\ mx'[h].test_total /= -1) =>
                   (ReadsLine(h) /\ Head(out[h]) = "count")
            /\ (ReadsLine(h) /\ Head(out[h]) = "count") => mx'[h].test_total /= -1
            /\ (mx[h].test_total /= -1 /\ pc'[h] /= "idle") =>
                   mx'[h].test_total = mx[h].test_total]_vars

\* Two test results were forwarded as 1 and 2, without a total.
C20_Witness ==
    LET tr == EventsOf(events[1], "test_result") IN
    /\ Len(tr) = 2
    /\ tr[1].index = 1 /\ tr[2].index = 2
    /\ tr[2].total = -1
    /\ tr[2].ok

\* The lines of the child that make an event when the multiplexer reads them.
Records(o) == {i \in 1..Len(o) : o[i] \in {"pass", "fail", "sum0", "sum1"}}

\* Handler h's streaming test runner returned after a normal exit of its
\* child, and every write to the client succeeded.
NormalExitConnected(h) ==
    /\ pc[h] \in {"test_done", "finally", "done"}
    /\ req[h].sse /\ req[h].try_py
    /\ mx[h].why = "exit"
    /\ \A i \in 1..Len(events[h]) : events[h][i].ok

\* C21: after a normal exit of the incremental runner within the deadline,
\* with the client connected, no test-result or summary record the runner
\* wrote is left unread in its pipe (each record read makes its event, in
\* the order read), and the test_result and summary events all come before
\* the closing phase event of the test phase and before done.
C21_AllRecordsStreamed ==
    \A h \in Handlers :
        NormalExitConnected(h) =>
            /\ Records(out[h]) = {}
            /\ \A i, j \in 1..Len(events[h]) :
                   (/\ events[h][i].e \in {"test_result", "summary"}
                    /\ \/ events[h][j].e = "done"
                       \/ (/\ events[h][j].e = "phase"
                           /\ events[h][j].phase = "test"
                           /\ events[h][j].status \in {"pass", "fail"}))
                   => i < j

\* Handler h's submission was rejected by try_register_request.
Rejected(h) == conflict[h] /= NoConflict

\* C22: a submission rejected at admission never runs copy_project and never
\* spawns a child; its conflict_info names an active submission id and an
\* active project id; once its handler has replied over a connection that is
\* up, the buffered transport has sent HTTP 409 and no event, and the
\* streaming transport has sent exactly the error event of phase "request"
\* followed by done with success false; nothing else is ever written.
C22_ConflictReply ==
    \A h \in Handlers :
        Rejected(h) =>
            /\ copies[h] = 0
            /\ \A ph \in Phases : child[h][ph] = "none"
            /\ conflict[h].request_id \in RequestIds
            /\ conflict[h].project_name \in Projects
            /\ pc[h] \in {"conflict", "done"}
            /\ pc[h] = "conflict" => (events[h] = <<>> /\ http[h] = 0)
            /\ (pc[h] = "done" /\ conn[h]) =>
                   IF req[h].sse
                   THEN events[h] = <<Ev("error", "request", conflict[h].reason, TRUE),
                                      Ev("done", "-", "false", TRUE)>>
                   ELSE events[h] = <<>> /\ http[h] = 409
            /\ (pc[h] = "done" /\ ~conn[h]) =>
                   \/ events[h] = <<>> /\ http[h] = 0
                   \/ /\ req[h].sse
                      /\ events[h] = <<Ev("error", "request", conflict[h].reason, FALSE),
                                       Ev("done", "-", "false", FALSE)>>

\* A rejected streaming submission has been answered while the holder's
\* build child runs.
C22_Witness ==
    \E h, g \in Handlers :
        /\ Rejected(h) /\ pc[h] = "done" /\ conn[h] /\ req[h].sse
        /\ Len(events[h]) = 2
        /\ byProject[conflict[h].project_name].owner = g
        /\ Running(g, "build")

\* The pipeline of handler h ended in error: the source project is missing,
\* the filters were rejected, or a phase verdict has status error.
PipelineError(h) ==
    \/ result[h].error /= "none"
    \/ result[h].build.status = "error"
    \/ result[h].test.status = "error"

\* C23: the buffered reply of an admitted submission has HTTP status 500 when
\* its pipeline ended in error (missing project, rejected filter, a phase
\* verdict of status error) and HTTP status 200 otherwise.
C23_StatusCode ==
    \A h \in Handlers :
        (~req[h].sse /\ ~Rejected(h) /\ http[h] /= 0) =>
            http[h] = IF PipelineError(h) THEN 500 ELSE 200

\* C24: the event stream of an admitted streaming submission starts with its
\* request_id event: whenever events have been written, the first of them is
\* request_id, so that it precedes every phase and error event.
C24_RequestIdFirst ==
    \A h \in Handlers :
        (req[h].sse /\ ~Rejected(h) /\ events[h] /= <<>>) =>
            events[h][1].e = "request_id"

\* The positions in an event log of the phase events of a phase with one of
\* the given statuses.
PhaseAt(log, phase, statuses) ==
    {i \in 1..Len(log) : log[i].e = "phase" /\ log[i].phase = phase
                         /\ log[i].status \in statuses}

\* C25: in the event stream of a streaming submission every phase event with
\* status start is followed, before the done event, by a phase event of the
\* same phase with status pass or fail.
C25_PhasesBracketed ==
    \A h \in Handlers : \A d \in DoneAt(events[h]) :
        \A ph \in {"copy", "build", "test"} :
            \A i \in PhaseAt(events[h], ph, {"start"}) :
                i < d => \E k \in PhaseAt(events[h], ph, {"pass", "fail"}) : i < k /\ k < d

\* C26: in the event stream of a streaming submission the start of build
\* comes after the pass of copy and the start of test after the pass of
\* build; no phase has both a pass and a fail event, nor two of either; and
\* no phase event follows the fail event of a phase.
C26_VerdictMonotone ==
    \A h \in Handlers :
        LET log == events[h] IN
        /\ \A i \in PhaseAt(log, "copy", {"start", "pass", "fail"}) :
               \A k \in PhaseAt(log, "build", {"start", "pass", "fail"}) : i < k
        /\ \A i \in PhaseAt(log, "build", {"start", "pass", "fail"}) :
               \A k \in PhaseAt(log, "test", {"start", "pass", "fail"}) : i < k
        /\ \A i \in PhaseAt(log, "build", {"start"}) : PhaseAt(log, "copy", {"pass"}) /= {}
        /\ \A i \in PhaseAt(log, "test", {"start"}) : PhaseAt(log, "build", {"pass"}) /= {}
        /\ \A ph \in {"copy", "build", "test"} :
               /\ Cardinality(PhaseAt(log, ph, {"pass", "fail"})) <= 1
               /\ Cardinality(PhaseAt(log, ph, {"start"})) <= 1
               /\ \A i \in PhaseAt(log, ph, {"start"}) :
                      \A k \in PhaseAt(log, ph, {"pass", "fail"}) : i < k
               /\ \A i \in PhaseAt(log, ph, {"fail"}) :
                      \A k \in 1..Len(log) : k > i => log[k].e /= "phase"

\* A finished stream with all three phases in which the test phase failed.
C26_Witness ==
    /\ PhaseAt(events[1], "copy", {"pass"}) /= {}
    /\ PhaseAt(events[1], "build", {"pass"}) /= {}
    /\ PhaseAt(events[1], "test", {"fail"}) /= {}
    /\ DoneAt(events[1]) /= {}

\* The status run_cdcl_test returns from its TimeoutExpired branch for a
\* child that wrote n lines before the deadline: "if not output.strip()".
run_cdcl_test_timeout_status(n) == IF n = 0 THEN "error" ELSE "timeout"

\* C27, for the expiry of the test deadline: the test verdict status the
\* streaming transport gives a child that ran over the deadline is the one
\* the buffered transport gives a child that behaved the same, whether the
\* child had written output by then or not.
C27_TransportSymmetry ==
    \A h \in Handlers :
        (/\ req[h].sse /\ req[h].try_py
         /\ mx[h].why = "timeout"
         /\ result[h].test.status /= "none")
        => result[h].test.status = run_cdcl_test_timeout_status(wrote[h])

\* Canceller c is past the with-block of cancel_request and has not returned:
\* it polls the child or is inside terminate_process_gracefully.
Terminating(c) == cpc[c] \in {"poll", "termwait"}

C29_ReturnsAfterSignal ==
    \A c \in Cancellers : cpc[c] = "termwait" => ENABLED CancelTerminate(c)

\* C30: the steps of a handler whose submission is rejected at admission,
\* the rejection itself and the delivery of the reply, leave the registry
\* as it was: both maps with every record and child handle, and every flag.
C30_RejectionFrame ==
    [][\A h \in Handlers :
          (\/ Admission(h) /\ pc'[h] = "conflict"
           \/ pc[h] = "conflict" /\ pc'[h] /= "conflict")
          => UNCHANGED <<byProject, reqToProject, flag>>]_vars

\* Handler h, admitted earlier, takes a step that calls unregister_request:
\* the finally block or the exception handler of do_POST.
Releases(h) == pc[h] \in {"finally", "except"} /\ pc'[h] /= pc[h]

\* C31: a release by an admitted handler removes no record but the one its
\* own admission installed: every record and every id entry that changes in
\* the step belongs to that handler.
C31_ReleaseOwnRecord ==
    [][\A h \in Handlers :
          Releases(h) =>
              /\ \A p \in Projects :
                     byProject'[p] /= byProject[p] => byProject[p].owner = h
              /\ \A r \in RequestIds :
                     reqToProject'[r] /= reqToProject[r] =>
                         byProject[reqToProject[r]].owner = h]_vars

\* Handler h takes the step that calls register_process for its child of phase ph.
Attaches(h, ph) == pc[h] = P[ph].register /\ pc'[h] /= pc[h]

\* C32: a call of register_process changes nothing when its submission id is
\* not admitted or the record of the id's project carries another id; when
\* the id is admitted, the child handle of its record is set and nothing
\* else changes: the record keeps its id and its Event, every other record,
\* the id map and every flag are as before.
C32_AttachFrame ==
    [][\A h \in Handlers, ph \in Phases :
          Attaches(h, ph) =>
              LET r == req[h].request_id
                  p == reqToProject[r]
              IN
              /\ UNCHANGED <<reqToProject, flag>>
              /\ IF p = "none" \/ byProject[p].request_id /= r
                 THEN UNCHANGED byProject
                 ELSE byProject' = [byProject EXCEPT ![p].proc = ph]]_vars

\* A child handle is attached to one record while another project's record,
\* admitted and without a child, is in the registry.
C32_Witness ==
    \E h, g \in Handlers :
        /\ pc[h] = "build_wait"
        /\ byProject[req[h].project_name] =
               [request_id |-> req[h].request_id, proc |-> "build", owner |-> h]
        /\ g /= h
        /\ pc[g] = "admitted"
        /\ byProject[req[g].project_name] =
               [request_id |-> req[g].request_id, proc |-> "none", owner |-> g]

\* C33: in every reachable registry and for every submission id r,
\* unregister_request applied twice gives what it gives applied once; it
\* removes the record of a project exactly when the id entry of r points to
\* that project and the record carries r, and the id entry of r with it; no
\* other record or id entry changes, and for an id that is not admitted
\* nothing changes.  The releases do_POST makes are such applications.
C33_ReleaseIdempotent ==
    /\ [](\A r \in RequestIds :
            LET now == [byp |-> byProject, r2p |-> reqToProject]
                once == unregister_request(byProject, reqToProject, r)
                twice == unregister_request(once.byp, once.r2p, r)
            IN
            /\ twice = once
            /\ once.r2p = [reqToProject EXCEPT ![r] = "none"]
            /\ \A p \in Projects :
                   once.byp[p] = IF reqToProject[r] = p /\ byProject[p].request_id = r
                                 THEN NoRecord ELSE byProject[p]
            /\ reqToProject[r] = "none" => once = now)
    /\ [][\A h \in Handlers :
            Releases(h) =>
                [byp |-> byProject', r2p |-> reqToProject'] =
                    unregister_request(byProject, reqToProject, req[h].request_id)]_vars

\* A handler has released twice in a row, in its finally block and in the
\* exception handler, while another submission holds a record.
C33_Witness ==
    \E h, g \in Handlers :
        /\ pc[h] = "done" /\ exc[h] /\ ~Rejected(h)
        /\ g /= h
        /\ Admitted(g)

\* C34: the two registry maps agree in every reachable state: the id entry
\* of r is project p exactly when the record of p exists and carries r.
C34_MapsConsistent ==
    \A r \in RequestIds, p \in Projects :
        (reqToProject[r] = p) <=> (byProject[p] /= NoRecord /\ byProject[p].request_id = r)

\* Both projects hold a record, each under its own submission id.
C34_Witness ==
    /\ \A p \in Projects : byProject[p] /= NoRecord
    /\ \E r \in RequestIds : reqToProject[r] = "p1"
    /\ \E r \in RequestIds : reqToProject[r] = "p2"

\* C35: whenever a runner has returned a verdict for a phase, the child it
\* spawned for the phase has exited; in particular no child of a submission
\* runs once the handler is past its release.
C35_NoOrphan ==
    \A h \in Handlers : \A ph \in Phases :
        result[h][ph].status /= "none" => ~Running(h, ph)

\* Handler h is in the select loop of run_cdcl_test_streaming.
InLoop(h) == pc[h] \in {"mx_head", "mx_readline"}

\* C36: while the test child of a streaming submission runs, the reader
\* loop is left no later than one tick after the deadline, whatever the
\* child writes, and no tick passes while the reader is inside readline().
C36_DeadlineEnforced ==
    /\ [](\A h \in Handlers :
            (InLoop(h) /\ Running(h, "test")) => mx[h].elapsed <= TestTimeout + 1)
    /\ [][\A h \in Handlers :
            pc[h] = "mx_readline" => mx'[h].elapsed = mx[h].elapsed]_vars

\* The positions of the keep-alive markers in an event log.
KeepaliveAt(log) == {i \in 1..Len(log) : log[i].e = "keep-alive"}

\* C37: a keep-alive is written only by a step of the select loop, taken
\* with no output of the child waiting in the pipe, at a time that is at
\* least the keep-alive interval after the previous keep-alive of the phase
\* (after the start of the phase for the first); in the event stream every
\* keep-alive lies after the start event of the test phase and before its
\* closing event, so none is written during copy or build or after the
\* multiplexer returned.
C37_KeepaliveDiscipline ==
    /\ [][\A h \in Handlers :
            KeepaliveAt(events'[h]) /= KeepaliveAt(events[h]) =>
                /\ pc[h] = "mx_head"
                /\ out[h] = <<>>
                /\ Len(events'[h]) = Len(events[h]) + 1
                /\ mx'[h].elapsed = mx[h].elapsed + 1
                /\ mx'[h].elapsed - mx[h].last_keepalive >= KeepaliveInterval
                /\ \A i \in KeepaliveAt(events[h]) : mx[h].last_keepalive > 0
                /\ events'[h][Len(events'[h])].ok => mx'[h].last_keepalive = mx'[h].elapsed]_vars
    /\ [](\A h \in Handlers : \A i \in KeepaliveAt(events[h]) :
            /\ \E k \in PhaseAt(events[h], "test", {"start"}) : k < i
            /\ \A k \in PhaseAt(events[h], "test", {"pass", "fail"}) : i < k
            /\ \A k \in DoneAt(events[h]) : i < k)

\* A second keep-alive has been written, an interval after the first.
C37_Witness ==
    /\ Cardinality(KeepaliveAt(events[1])) = 2
    /\ mx[1].last_keepalive = 2 * KeepaliveInterval
    /\ DoneAt(events[1]) /= {}

\* The lines of child output that are log noise.
NoiseLines == {"empty", "notjson", "notobject", "junk"}

\* C38: reading a line that is empty, not JSON, not a JSON object, or an
\* object of no recognised shape writes no event and leaves test_index,
\* test_total, summary and the failures as they were; the loop goes on.
C38_NoiseIgnored ==
    [][\A h \in Handlers :
          (ReadsLine(h) /\ Head(out[h]) \in NoiseLines) =>
              /\ events'[h] = events[h]
              /\ mx'[h] = mx[h]
              /\ conn'[h] = conn[h]
              /\ pc'[h] = "mx_head"]_vars

\* Two lines of noise were read and nothing else: no counter moved and
\* the stream has no event of the test phase but its start.
C38_Witness ==
    /\ pc[1] = "mx_head"
    /\ wrote[1] = 2 /\ out[1] = <<>>
    /\ mx[1].test_index = 0 /\ mx[1].test_total = -1 /\ mx[1].summary = "none"
    /\ events[1][Len(events[1])].e = "phase"

\* A group kill is sent for the child of handler h in this step.
GroupKillSent(h, ph) ==
    (sigs'[h][ph] \ sigs[h][ph]) \cap {"KILLPG", "KILLPG_STALE"} /= {}

\* C39: with a canceller and the pipeline worker acting on one child, a
\* group kill is sent only for a child that no other thread has waited
\* for: no kill goes out with the pid of a reaped child.
C39_NoStaleGroupKill ==
    /\ [](\A h \in Handlers, ph \in Phases : "KILLPG_STALE" \notin sigs[h][ph])
    /\ [][\A h \in Handlers, ph \in Phases :
            GroupKillSent(h, ph) =>
                /\ (\E c \in Cancellers : cpc[c] = "termkill" /\ cpc'[c] = "done")
                       => ~ReapedByWorker(h, ph)
                /\ (pc[h] = "mx_termkill" /\ pc'[h] = "test_done")
                       => ~ReapedByCanceller(h, ph)]_vars

\* C40: under the streaming transport a test verdict of pass means that no
\* test result other than pass was read in the phase, and the subscriber is
\* never sent a failed test_result followed by phase{test, pass} and
\* done{success: true}.
C40_PassMeansNoFailure ==
    \A h \in Handlers :
        /\ (pc[h] \notin {"mx_head", "mx_readline", "mx_post", "mx_termwait", "mx_termkill"}
            /\ result[h].test.status = "pass") => mx[h].failures = 0
        /\ \A i, j, k \in 1..Len(events[h]) :
              ~(/\ i < j /\ j < k
                /\ events[h][i].e = "test_result" /\ events[h][i].status /= "pass"
                /\ events[h][j] = Ev("phase", "test", "pass", TRUE)
                /\ events[h][k] = Ev("done", "-", "true", TRUE)
                /\ events[h][i].ok)

=============================================================================
